---- MODULE Spec2Model ----
(***************************************************************************)
(* The agent pipeline of src/app/layout.tsx (POST): a supervisor call, the  *)
(* researcher's tool loop, a synthesizer call, and the events the pipeline  *)
(* writes to its ReadableStream.                                            *)
(*                                                                         *)
(* A JavaScript string is a sequence of tokens (each token a TLA+ string);  *)
(* concatenation is \o.  One action is one synchronous segment of start():  *)
(* the code between two awaits, with the catch and finally blocks that a    *)
(* throw in that segment runs.                                              *)
(***************************************************************************)
EXTENDS Integers, Sequences, FiniteSets, TLC

\* Largest number of researcher responses with stop_reason tool_use in a run
\* (the while loop of the source has no cap).
MaxIter == 2

\* Largest number of such responses for each of two concurrent runs.
TwoRunsMaxIter == 1

----------------------------------------------------------------------------
\* JavaScript values

\* The value undefined (a missing property).
Undefined == <<"#undefined">>

\* The value null, as the value of a property.
Null == <<"#null">>

\* A number, as the value of a property.
Num == <<"#number">>

\* String(v) inside a template literal.
ToStr(v) ==
  IF v = Undefined THEN <<"undefined">>
  ELSE IF v = Null THEN <<"null">>
  ELSE IF v = Num THEN <<"1">>
  ELSE v

\* String.prototype.trim: the whitespace tokens removed at both ends.
RECURSIVE TrimLeft(_)
TrimLeft(s) == IF s # <<>> /\ Head(s) = " " THEN TrimLeft(Tail(s)) ELSE s

RECURSIVE TrimRight(_)
TrimRight(s) ==
  IF s # <<>> /\ s[Len(s)] = " " THEN TrimRight(SubSeq(s, 1, Len(s) - 1)) ELSE s

Trim(s) == TrimRight(TrimLeft(s))

----------------------------------------------------------------------------
\* JSON text: the tokens of the planner's output

\* The string literals of the texts, and the string each denotes.
Unquote ==
  ("\"search_term\"" :> "search_term") @@
  ("\"response_format\"" :> "response_format") @@
  ("\"X\"" :> "X") @@
  ("\"short summary\"" :> "short summary") @@
  ("\"foo\"" :> "foo")

IsStrLit(t) == t \in DOMAIN Unquote
IsScalar(t) == IsStrLit(t) \/ t = "null" \/ t = "1"

\* The value a scalar token denotes.
ScalarValue(t) ==
  IF IsStrLit(t) THEN <<Unquote[t]>> ELSE IF t = "null" THEN Null ELSE Num

\* The result of JSON.parse: ok = FALSE is a SyntaxError; kind is the type of
\* the parsed value and fields the properties of a parsed object (NoFields:
\* none).
NoFields == [k \in {} |-> <<>>]
SyntaxError == [ok |-> FALSE, kind |-> "none", fields |-> NoFields]
Parsed(kind, fields) == [ok |-> TRUE, kind |-> kind, fields |-> fields]

\* The members of an object from token i on: "key" : scalar, then a comma and
\* more members, or the closing brace as the last token.
RECURSIVE ParseMembers(_, _, _)
ParseMembers(toks, i, acc) ==
  IF i + 3 > Len(toks) THEN SyntaxError
  ELSE IF ~(IsStrLit(toks[i]) /\ toks[i + 1] = ":" /\ IsScalar(toks[i + 2]))
    THEN SyntaxError
  ELSE
    LET key == Unquote[toks[i]]
        acc2 == [k \in DOMAIN acc \cup {key} |->
                   IF k = key THEN ScalarValue(toks[i + 2]) ELSE acc[k]]
    IN IF toks[i + 3] = "}"
         THEN (IF i + 3 = Len(toks) THEN Parsed("object", acc2) ELSE SyntaxError)
       ELSE IF toks[i + 3] = ","
         THEN ParseMembers(toks, i + 4, acc2)
       ELSE SyntaxError

\* JSON.parse(text): one JSON value (null, a number, a string, or an object of
\* scalar members) with whitespace between the tokens, and nothing after it.
JSONParse(text) ==
  LET toks == SelectSeq(text, LAMBDA t : t # " ")
  IN IF toks = <<>> THEN SyntaxError
     ELSE IF Len(toks) = 1
       THEN (IF toks[1] = "null" THEN Parsed("null", NoFields)
             ELSE IF toks[1] = "1" THEN Parsed("number", NoFields)
             ELSE IF IsStrLit(toks[1]) THEN Parsed("string", NoFields)
             ELSE SyntaxError)
     ELSE IF toks[1] # "{" THEN SyntaxError
     ELSE IF toks = <<"{", "}">> THEN Parsed("object", NoFields)
     ELSE ParseMembers(toks, 2, NoFields)

\* raw.match(/\{[\s\S]*\}/)?.[0] ?? raw : from the first opening brace to the
\* last closing brace after it (the star is greedy); raw itself when there is
\* no such pair.
FirstIndex(s, t) ==
  IF \E i \in 1..Len(s) : s[i] = t
    THEN CHOOSE i \in 1..Len(s) : s[i] = t /\ \A j \in 1..(i - 1) : s[j] # t
    ELSE 0

LastIndex(s, t) ==
  IF \E i \in 1..Len(s) : s[i] = t
    THEN CHOOSE i \in 1..Len(s) : s[i] = t /\ \A j \in (i + 1)..Len(s) : s[j] # t
    ELSE 0

BraceMatch(raw) ==
  LET a == FirstIndex(raw, "{")
      b == LastIndex(raw, "}")
  IN IF a > 0 /\ b > a THEN SubSeq(raw, a, b) ELSE raw

\* value.key for a parsed value that is not null: the property of an object,
\* undefined when the object lacks it or the value is a number or a string.
GetProp(parsed, key) ==
  IF parsed.kind = "object" /\ key \in DOMAIN parsed.fields
    THEN parsed.fields[key]
    ELSE Undefined

----------------------------------------------------------------------------
\* The request and the literals of the source

\* The body of the request: the question and one model per role.
Requests ==
  {[question |-> <<"What is X?">>, supervisorModel |-> "model-a",
    researcherModel |-> "model-b", synthesizerModel |-> "model-c"]}

DefaultFormat == <<"Explicacion clara y estructurada">>

\* The number of characters of the tokens that stand for more than one
\* character in a length test; every other token is one character.
LiteralLength ==
  ("No se encontro el articulo: " :> 28) @@
  ("Articulo sin contenido." :> 23) @@
  ("Sin resultados." :> 15) @@
  ("Herramienta desconocida." :> 24) @@
  ("<the first 120 characters of a long extract>" :> 120)

RECURSIVE ExtraLength(_, _)
ExtraLength(s, lits) ==
  IF lits = {} THEN 0
  ELSE LET t == CHOOSE x \in lits : TRUE
       IN (LiteralLength[t] - 1) * Cardinality({i \in DOMAIN s : s[i] = t})
          + ExtraLength(s, lits \ {t})

\* s.length
Length(s) == Len(s) + ExtraLength(s, DOMAIN LiteralLength)

\* s.slice(0, n), for a cut that falls between two tokens.
Slice(s, n) ==
  LET k == CHOOSE j \in 0..Len(s) :
             /\ Length(SubSeq(s, 1, j)) <= n
             /\ (j = Len(s) \/ Length(SubSeq(s, 1, j + 1)) > n)
  IN SubSeq(s, 1, k)

\* The cap of the article preview.
PreviewCap == 120

----------------------------------------------------------------------------
\* Content blocks of a model response

TextBlock(text) ==
  [type |-> "text", text |-> text, id |-> <<0, 0>>, name |-> "", input |-> NoFields]

ToolUseBlock(id, name, input) ==
  [type |-> "tool_use", text |-> <<>>, id |-> id, name |-> name, input |-> input]

\* The contents the supervisor model may return.
SupervisorContents ==
  { <<TextBlock(<<"{", "\"search_term\"", ":", "\"X\"", ",",
                  "\"response_format\"", ":", "\"short summary\"", "}">>)>>,
    <<TextBlock(<<"Sure", " ", "{", "\"search_term\"", ":", "\"X\"", ",",
                  "\"response_format\"", ":", "\"short summary\"", "}", " ", "ok">>)>>,
    <<TextBlock(<<"{", "\"search_term\"", ":", "\"X\"", ",",
                  "\"response_format\"", ":", "\"short summary\"", "}",
                  " ", "see", " ", "{", "\"foo\"", ":", "1", "}">>)>>,
    <<TextBlock(<<"I", " ", "would", " ", "search">>)>>,
    <<TextBlock(<<>>)>>,
    <<TextBlock(<<"{", "\"search_term\"", ":", "\"X\"">>)>>,
    <<TextBlock(<<"{", "\"foo\"", ":", "1", "}">>)>>,
    <<TextBlock(<<"{", "\"search_term\"", ":", "\"X\"", "}">>)>>,
    <<TextBlock(<<"null">>)>>,
    <<ToolUseBlock(<<0, 1>>, "search_wikipedia", ("query" :> <<"A">>))>>,
    <<>> }

\* The contents the researcher model may return with stop_reason tool_use,
\* for the n-th call (the ids of the requests of one response are distinct);
\* the code does not require such a content to hold a tool_use block.
ToolUseContents(n) ==
  { <<TextBlock(<<"I", " ", "wait">>)>>,
    <<TextBlock(<<"I", " ", "search">>),
      ToolUseBlock(<<n, 1>>, "lookup", ("q" :> <<"X">>)),
      ToolUseBlock(<<n, 2>>, "search_wikipedia", ("query" :> <<"A">>))>>,
    <<ToolUseBlock(<<n, 1>>, "search_wikipedia", ("query" :> <<"X">>)),
      TextBlock(<<" ">>),
      ToolUseBlock(<<n, 2>>, "get_wikipedia_article", ("title" :> <<"B">>))>> }

\* The contents the researcher model may return with another stop reason; a
\* response cut at max_tokens may hold a tool_use block.
TerminalResponses(n) ==
  { [stop_reason |-> "end_turn", content |-> <<TextBlock(<<"X", " ", "is">>)>>],
    [stop_reason |-> "end_turn", content |-> <<>>],
    [stop_reason |-> "end_turn",
     content |-> <<TextBlock(<<" ">>), TextBlock(<<"X", " ", "is">>)>>],
    [stop_reason |-> "max_tokens",
     content |-> <<ToolUseBlock(<<n, 1>>, "search_wikipedia", ("query" :> <<"X">>)),
                   TextBlock(<<"X", " ", "is">>)>>] }

ResearcherResponses(n) ==
  [stop_reason : {"tool_use"}, content : ToolUseContents(n)] \cup TerminalResponses(n)

\* The contents the synthesizer model may return.
SynthesizerContents ==
  { <<TextBlock(<<"#", " ", "X">>)>>,
    <<ToolUseBlock(<<0, 1>>, "lookup", NoFields), TextBlock(<<"#", " ", "X">>)>>,
    <<>> }

\* What a rejected call of the SDK throws.
APIErrors == {[isError |-> TRUE, message |-> <<"APIError">>]}

TypeErrorValue == [isError |-> TRUE, message |-> <<"TypeError">>]

----------------------------------------------------------------------------
\* The Wikipedia helpers

\* The pages of a search response: a title and an excerpt with markup, or no
\* excerpt.
Page(i) ==
  IF i = 1 THEN [title |-> <<"A">>, excerpt |-> <<"<b>", "a", "</b>", "s">>]
  ELSE [title |-> <<"B">>, excerpt |-> Undefined]

\* What the fetch of a helper may end in: the fetch rejects, a status that is
\* not ok, a body that is not JSON, or a decoded body (hasPages: the body has
\* the property pages).
SearchOutcomes ==
  { [kind |-> "reject", hasPages |-> FALSE, pages |-> <<>>],
    [kind |-> "status", hasPages |-> FALSE, pages |-> <<>>],
    [kind |-> "badjson", hasPages |-> FALSE, pages |-> <<>>],
    [kind |-> "ok", hasPages |-> FALSE, pages |-> <<>>] }
  \cup { [kind |-> "ok", hasPages |-> TRUE, pages |-> pages] :
           pages \in {<<>>, <<Page(1), Page(2)>>} }

\* An extract of 121 characters.
LongExtract == <<"<the first 120 characters of a long extract>", "e">>

ArticleOutcomes ==
  { [kind |-> "reject", extract |-> Undefined],
    [kind |-> "status", extract |-> Undefined],
    [kind |-> "badjson", extract |-> Undefined],
    [kind |-> "ok", extract |-> Undefined],
    [kind |-> "ok", extract |-> LongExtract] }

\* excerpt.replace(/<[^>]+>/g, '')
IsTag(t) == t \in {"<b>", "</b>"}
StripTags(s) == SelectSeq(s, LAMBDA t : ~IsTag(t))

\* What a helper ends in: a value, or a throw.
Returned(v) == [throws |-> FALSE, value |-> v, error |-> TypeErrorValue]
Thrown(e) == [throws |-> TRUE, value |-> <<>>, error |-> e]

searchWikipedia(out) ==
  IF out.kind = "reject"
    THEN Thrown([isError |-> TRUE, message |-> <<"fetch failed">>])
  ELSE IF out.kind = "status" THEN Returned(<<>>)
  ELSE IF out.kind = "badjson"
    THEN Thrown([isError |-> TRUE, message |-> <<"SyntaxError">>])
  ELSE IF ~out.hasPages THEN Returned(<<>>)
  ELSE Returned([i \in 1..Len(out.pages) |->
                  [title |-> out.pages[i].title,
                   snippet |-> IF out.pages[i].excerpt = Undefined THEN <<>>
                               ELSE StripTags(out.pages[i].excerpt)]])

\* getWikipediaArticleStrict: a helper that throws on a status that is not ok.
getWikipediaArticleStrict(title, out) ==
  IF out.kind \in {"reject", "status"}
    THEN Thrown([isError |-> TRUE, message |-> <<"fetch failed">>])
  ELSE IF out.kind = "badjson"
    THEN Thrown([isError |-> TRUE, message |-> <<"SyntaxError">>])
  ELSE IF out.extract = Undefined THEN Returned(<<"Articulo sin contenido.">>)
  ELSE Returned(out.extract)
getWikipediaArticle(title, out) ==
  IF out.kind = "reject"
    THEN Thrown([isError |-> TRUE, message |-> <<"fetch failed">>])
  ELSE IF out.kind = "status"
    THEN Returned(<<"No se encontro el articulo: ">> \o ToStr(title))
  ELSE IF out.kind = "badjson"
    THEN Thrown([isError |-> TRUE, message |-> <<"SyntaxError">>])
  ELSE IF out.extract = Undefined THEN Returned(<<"Articulo sin contenido.">>)
  ELSE Returned(out.extract)

\* items.join(sep)
RECURSIVE Join(_, _)
Join(items, sep) ==
  IF items = <<>> THEN <<>>
  ELSE IF Len(items) = 1 THEN items[1]
  ELSE items[1] \o sep \o Join(Tail(items), sep)

----------------------------------------------------------------------------
\* The state of one run of POST

VARIABLES
  pc,                 \* where start() is: the await it is suspended at
  req,                \* the body of the request
  events,             \* the events enqueued on the stream, in order
  streamState,        \* "readable", or "closed" (no enqueue, no close)
  closedBy,           \* "none", "controller" (controller.close) or "cancel"
  failedEmits,        \* the calls of emit whose enqueue threw
  closeThrew,         \* controller.close() threw
  outcome,            \* "running", "completed" (the try block ended) or "caught"
  supervisorResponse, \* the supervisor's response, once returned
  plan,               \* the plan
  researcherMessages, \* the researcher's conversation
  researcherResponse, \* the researcher's last response
  toolResults,        \* the results collected for that response
  blockIdx,           \* the tool_use block whose helper is awaited
  iter,               \* the researcher calls made
  researchSummary,    \* the researcher's findings
  synthesizerResponse, \* the synthesizer's response, once returned
  calls,              \* the model calls and helper calls started, in order
  articleRes,         \* res of the last getWikipediaArticle whose fetch resolved
  received,           \* what the awaited calls settled with, in order
  other               \* the locals of a second invocation of POST, suspended

\* The state of the page component (useState), and the invocations of
\* handleSubmit.
VARIABLES
  questionInput,        \* question: the text of the textarea
  running,
  done,
  finalAnswer,
  error,
  supervisorStatus,
  researcherStatus,
  synthesizerStatus,
  supervisorLog,
  researcherLog,
  synthesizerLog,
  handoffToResearcher,
  handoffToSynthesizer,
  submissions           \* the invocations of handleSubmit that passed the guard

pageVars ==
  <<questionInput, running, done, finalAnswer, error, supervisorStatus,
    researcherStatus, synthesizerStatus, supervisorLog, researcherLog,
    synthesizerLog, handoffToResearcher, handoffToSynthesizer, submissions>>

\* The page as mounted: the initial values of useState.
PageInit ==
  /\ questionInput = <<>>
  /\ running = FALSE
  /\ done = FALSE
  /\ finalAnswer = <<>>
  /\ error = <<>>
  /\ supervisorStatus = "esperando"
  /\ researcherStatus = "esperando"
  /\ synthesizerStatus = "esperando"
  /\ supervisorLog = <<>>
  /\ researcherLog = <<>>
  /\ synthesizerLog = <<>>
  /\ handoffToResearcher = Null
  /\ handoffToSynthesizer = Null
  /\ submissions = <<>>

vars ==
  <<pc, req, events, streamState, closedBy, failedEmits, closeThrew, outcome,
    supervisorResponse, plan, researcherMessages, researcherResponse,
    toolResults, blockIdx, iter, researchSummary, synthesizerResponse,
    calls, articleRes, received, other, pageVars>>

NoResponse == [returned |-> FALSE, stop_reason |-> "", content |-> <<>>]
Response(stop, content) == [returned |-> TRUE, stop_reason |-> stop, content |-> content]

\* A call of client.messages.create, and a call of a helper.
ModelCall(role, model, tools, messages) ==
  [kind |-> "model", role |-> role, model |-> model, tools |-> tools,
   messages |-> messages, name |-> "", input |-> NoFields]
HelperCall(block) ==
  [kind |-> "helper", role |-> "", model |-> "", tools |-> FALSE,
   messages |-> <<>>, name |-> block.name, input |-> block.input]

NoArticleRes == [fetched |-> FALSE, id |-> <<0, 0>>, title |-> Undefined, ok |-> FALSE]

\* What an awaited call settled with: the value of a model call or of a
\* helper, or what it threw.
Settled(kind, value) == [kind |-> kind, value |-> value]

\* No second invocation.
NoOther == [pc |-> "none"]

Init ==
  /\ pc = "start"
  /\ req \in Requests
  /\ events = <<>>
  /\ streamState = "readable"
  /\ closedBy = "none"
  /\ failedEmits = 0
  /\ closeThrew = FALSE
  /\ outcome = "running"
  /\ supervisorResponse = NoResponse
  /\ plan = [search_term |-> Undefined, response_format |-> Undefined]
  /\ researcherMessages = <<>>
  /\ researcherResponse = NoResponse
  /\ toolResults = <<>>
  /\ blockIdx = 0
  /\ iter = 0
  /\ researchSummary = <<>>
  /\ synthesizerResponse = NoResponse
  /\ calls = <<>>
  /\ articleRes = NoArticleRes
  /\ received = <<>>
  /\ other = NoOther
  /\ PageInit

----------------------------------------------------------------------------
\* The AgentEvent union: its kinds, and the fields of each kind.

AgentEventKinds ==
  {"supervisor_start", "supervisor_plan", "supervisor_delegate", "supervisor_review",
   "supervisor_done", "researcher_start", "researcher_thinking",
   "researcher_tool_call", "researcher_tool_result", "researcher_done",
   "synthesizer_start", "synthesizer_done", "error"}

\* e has the fields of its kind (count is optional).
IsAgentEvent(e) ==
  /\ e.type \in AgentEventKinds
  /\ LET fields == DOMAIN e \ {"type"}
     IN CASE e.type = "supervisor_plan" -> fields = {"searchTerm", "responseFormat"}
          [] e.type = "supervisor_delegate" ->
               fields = {"to", "instructions"} /\ e.to \in {"researcher", "synthesizer"}
          [] e.type = "researcher_thinking" -> fields = {"text"}
          [] e.type = "researcher_tool_call" -> fields = {"tool", "input"}
          [] e.type = "researcher_tool_result" ->
               fields \in {{"tool", "resultPreview"}, {"tool", "resultPreview", "count"}}
          [] e.type = "synthesizer_done" -> fields = {"answer"}
          [] e.type = "error" -> fields = {"message"}
          [] OTHER -> fields = {}

----------------------------------------------------------------------------
\* emit, catch, finally

\* controller.enqueue and controller.close throw unless the stream is readable.
CanEnqueue == streamState = "readable"

\* err instanceof Error ? err.message : 'Error desconocido'
ErrorMessage(err) == IF err.isError THEN err.message ELSE <<"Error desconocido">>

\* The events the catch block emits for the caught value (CatchBlockSilent: a
\* catch block that swallows it).
CatchBlockSilent(err) == <<>>
CatchBlock(err) == <<[type |-> "error", message |-> ErrorMessage(err)]>>

\* The state of the stream after the finally block, entered with the stream
\* readable (FinallyBlockOpen: a finally block that does not close).
FinallyBlockOpen == "readable"
FinallyBlock == "closed"

\* The end of a synchronous segment of the try block that emits evs, in this
\* order, and then throws err (throws), awaits (next is the await) or ends the
\* try block (next = "done").  On a stream that is not readable the first emit
\* throws; a throw runs the catch block and the finally block.
Aborts(evs, throws) == throws \/ (~CanEnqueue /\ evs # <<>>)

\* (SegmentRetrying: a segment that awaits the same call again after a throw.)
SegmentRetrying(evs, throws, err, next) ==
  LET aborts == Aborts(evs, throws)
      ends == aborts \/ next = "done"
      caught == IF throws THEN CatchBlock(err) ELSE <<>>
  IN /\ events' = IF CanEnqueue THEN events \o evs \o caught ELSE events
     /\ failedEmits' =
          IF CanEnqueue THEN failedEmits
          ELSE failedEmits + (IF evs # <<>> THEN 1 ELSE 0)
                           + (IF aborts THEN Len(CatchBlock(err)) ELSE 0)
     /\ pc' = IF throws THEN pc ELSE IF aborts THEN "done" ELSE next
     /\ outcome' = IF aborts THEN "caught" ELSE IF ends THEN "completed" ELSE outcome
     /\ streamState' = IF ends /\ CanEnqueue THEN FinallyBlock ELSE streamState
     /\ closedBy' = IF ends /\ CanEnqueue /\ FinallyBlock = "closed"
                      THEN "controller" ELSE closedBy
     /\ closeThrew' = IF ends /\ ~CanEnqueue THEN TRUE ELSE closeThrew

Segment(evs, throws, err, next) ==
  LET aborts == Aborts(evs, throws)
      ends == aborts \/ next = "done"
      caught == IF throws THEN CatchBlock(err) ELSE <<>>
  IN /\ events' = IF CanEnqueue THEN events \o evs \o caught ELSE events
     /\ failedEmits' =
          IF CanEnqueue THEN failedEmits
          ELSE failedEmits + (IF evs # <<>> THEN 1 ELSE 0)
                           + (IF aborts THEN Len(CatchBlock(err)) ELSE 0)
     /\ pc' = IF aborts THEN "done" ELSE next
     /\ outcome' = IF aborts THEN "caught" ELSE IF ends THEN "completed" ELSE outcome
     /\ streamState' = IF ends /\ CanEnqueue THEN FinallyBlock ELSE streamState
     /\ closedBy' = IF ends /\ CanEnqueue /\ FinallyBlock = "closed"
                      THEN "controller" ELSE closedBy
     /\ closeThrew' = IF ends /\ ~CanEnqueue THEN TRUE ELSE closeThrew

----------------------------------------------------------------------------
\* Phase 1: the supervisor

\* The supervisor call: the question as the only turn, no tools.
SupervisorCall(r) ==
  ModelCall("supervisor", r.supervisorModel, FALSE,
            <<[role |-> "user", content |-> r.question]>>)

Start ==
  /\ pc = "start"
  /\ Segment(<<[type |-> "supervisor_start"]>>, FALSE, TypeErrorValue, "await_supervisor")
  /\ calls' = Append(calls, SupervisorCall(req))
  /\ UNCHANGED <<req, supervisorResponse, plan, researcherMessages,
                 researcherResponse, toolResults, blockIdx, iter,
                 researchSummary, synthesizerResponse, articleRes, received, other, pageVars>>

\* content[0].type === 'text' ? content[0].text : '' , for a content that has
\* a first block.
FirstBlockText(content) ==
  IF content[1].type = "text" THEN content[1].text ELSE <<>>

\* The try/catch around JSON.parse: the parsed value (isNull: it is null, and
\* reading a property of it throws), or the fallback plan (ParsePlanOfRaw: a
\* fallback that searches for the planner's text).
ParsePlanOfRaw(question, raw) ==
  LET parsed == JSONParse(BraceMatch(raw))
  IN IF parsed.ok
       THEN [isNull |-> parsed.kind = "null",
             search_term |-> GetProp(parsed, "search_term"),
             response_format |-> GetProp(parsed, "response_format")]
       ELSE [isNull |-> FALSE, search_term |-> raw,
             response_format |-> DefaultFormat]
ParsePlan(question, raw) ==
  LET parsed == JSONParse(BraceMatch(raw))
  IN IF parsed.ok
       THEN [isNull |-> parsed.kind = "null",
             search_term |-> GetProp(parsed, "search_term"),
             response_format |-> GetProp(parsed, "response_format")]
       ELSE [isNull |-> FALSE, search_term |-> question,
             response_format |-> DefaultFormat]

researcherInstruction(p) ==
  <<"Busca informacion sobre: \"">> \o ToStr(p.search_term)
    \o <<"\". Usa las herramientas disponibles para encontrar datos precisos en Wikipedia. Devuelveme un resumen completo de lo que encuentres.">>

\* The first turn of the researcher's conversation (SeedTurnOfQuestion: one
\* whose topic is the question).
SeedTurnOfQuestion(p) ==
  [role |-> "user",
   content |-> researcherInstruction(p) \o <<"\n\nTema de investigacion: \"">>
                 \o ToStr(req.question) \o <<"\"">>]
SeedTurn(p) ==
  [role |-> "user",
   content |-> researcherInstruction(p) \o <<"\n\nTema de investigacion: \"">>
                 \o ToStr(p.search_term) \o <<"\"">>]

\* The events from the supervisor's response to the first researcher call
\* (PlanEventsNoStart: without the start of the research).
PlanEventsNoStart(p) ==
  << [type |-> "supervisor_plan", searchTerm |-> p.search_term,
      responseFormat |-> p.response_format],
     [type |-> "supervisor_delegate", to |-> "researcher",
      instructions |-> researcherInstruction(p)] >>
PlanEvents(p) ==
  << [type |-> "supervisor_plan", searchTerm |-> p.search_term,
      responseFormat |-> p.response_format],
     [type |-> "supervisor_delegate", to |-> "researcher",
      instructions |-> researcherInstruction(p)],
     [type |-> "researcher_start"] >>

SupervisorThrows ==
  /\ pc = "await_supervisor"
  /\ \E e \in APIErrors :
       /\ Segment(<<>>, TRUE, e, "done")
       /\ received' = Append(received, Settled("error", e))
  /\ UNCHANGED <<req, supervisorResponse, plan, researcherMessages,
                 researcherResponse, toolResults, blockIdx, iter,
                 researchSummary, synthesizerResponse, calls, articleRes, other, pageVars>>

\* A researcher call: the conversation so far, with the tools
\* (ResearcherCallAsSupervisor: one made with the supervisor's model).
ResearcherCallAsSupervisor(r, messages) ==
  ModelCall("researcher", r.supervisorModel, TRUE, messages)
ResearcherCall(r, messages) ==
  ModelCall("researcher", r.researcherModel, TRUE, messages)

SupervisorReturns ==
  /\ pc = "await_supervisor"
  /\ \E content \in SupervisorContents :
       LET unreadable == content = <<>>
           p == IF unreadable
                  THEN [isNull |-> TRUE, search_term |-> Undefined,
                        response_format |-> Undefined]
                  ELSE ParsePlan(req.question, FirstBlockText(content))
           throws == unreadable \/ p.isNull
           newPlan == [search_term |-> p.search_term,
                       response_format |-> p.response_format]
           evs == IF throws THEN <<>> ELSE PlanEvents(newPlan)
       IN /\ Segment(evs, throws, TypeErrorValue, "await_researcher")
          /\ supervisorResponse' = Response("end_turn", content)
          /\ plan' = IF unreadable THEN plan ELSE newPlan
          /\ researcherMessages' =
               IF Aborts(evs, throws) THEN researcherMessages ELSE <<SeedTurn(newPlan)>>
          /\ calls' = IF Aborts(evs, throws) THEN calls
                      ELSE Append(calls, ResearcherCall(req, <<SeedTurn(newPlan)>>))
          /\ received' = Append(received, Settled("supervisor", content))
  /\ UNCHANGED <<req, researcherResponse, toolResults, blockIdx, iter,
                 researchSummary, synthesizerResponse, articleRes, other, pageVars>>

----------------------------------------------------------------------------
\* Phase 2: the researcher's tool loop

\* One researcher_thinking event for every text block that is not blank
\* (ThinkingEventsOfAll: for every text block).
ThinkingEventsOfAll(content) ==
  LET texts == SelectSeq(content, LAMBDA b : b.type = "text")
  IN [i \in 1..Len(texts) |-> [type |-> "researcher_thinking", text |-> texts[i].text]]
ThinkingEvents(content) ==
  LET texts == SelectSeq(content, LAMBDA b : b.type = "text" /\ Trim(b.text) # <<>>)
  IN [i \in 1..Len(texts) |-> [type |-> "researcher_thinking", text |-> texts[i].text]]

\* response.content.filter(b => b.type === 'tool_use')
\* (toolUseBlocksReversed: the requests taken last to first).
toolUseBlocksReversed(content) ==
  LET blocks == SelectSeq(content, LAMBDA b : b.type = "tool_use")
  IN [i \in 1..Len(blocks) |-> blocks[Len(blocks) + 1 - i]]
toolUseBlocks(content) == SelectSeq(content, LAMBDA b : b.type = "tool_use")

\* The event of a request (ToolCallEventOfBlock: one that carries the type of
\* the content block).
ToolCallEventOfBlock(block) ==
  [type |-> block.type, tool |-> block.name, input |-> block.input]
ToolCallEvent(block) ==
  [type |-> "researcher_tool_call", tool |-> block.name, input |-> block.input]

\* The tool_result block pushed for a request (ToolResultBlockNoId: one that
\* does not take the id of the request).
ToolResultBlockNoId(block, result) ==
  [type |-> "tool_result", tool_use_id |-> <<0, 0>>, content |-> result]
\* ToolResultBlockCapped: one that holds what the event shows of a long
\* result.
ToolResultBlockCapped(block, result) ==
  [type |-> "tool_result", tool_use_id |-> block.id,
   content |-> IF Length(result) > PreviewCap
                 THEN Slice(result, PreviewCap) \o <<"...">> ELSE result]
ToolResultBlock(block, result) ==
  [type |-> "tool_result", tool_use_id |-> block.id, content |-> result]

UnknownTool == <<"Herramienta desconocida.">>

\* The names the if/else chain sends to a helper (IsHelperAny: a chain whose
\* last branch takes every other name).
IsHelperAny(name) == TRUE
IsHelper(name) == name \in {"search_wikipedia", "get_wikipedia_article"}

\* The for loop over the tool_use blocks from block i on, entered with the
\* events evs to emit and the results collected: up to the await of a helper
\* (awaits, for block blockIdx) or the end of the loop.
RECURSIVE Dispatch(_, _, _, _)
Dispatch(blocks, i, evs, results) ==
  IF i > Len(blocks)
    THEN [events |-> evs, toolResults |-> results, blockIdx |-> 0, awaits |-> FALSE]
  ELSE IF IsHelper(blocks[i].name)
    THEN [events |-> Append(evs, ToolCallEvent(blocks[i])), toolResults |-> results,
          blockIdx |-> i, awaits |-> TRUE]
  ELSE Dispatch(blocks, i + 1,
                evs \o << ToolCallEvent(blocks[i]),
                          [type |-> "researcher_tool_result", tool |-> blocks[i].name,
                           resultPreview |-> UnknownTool] >>,
                Append(results, ToolResultBlock(blocks[i], UnknownTool)))

\* The two turns pushed after the for loop (FollowUpTurnsPerResult: one user
\* turn for every result).
FollowUpTurnsPerResult(content, results) ==
  <<[role |-> "assistant", content |-> content]>>
    \o [k \in 1..Len(results) |-> [role |-> "user", content |-> <<results[k]>>]]
\* FollowUpTurnsUserFirst: the results pushed before the response.
FollowUpTurnsUserFirst(content, results) ==
  << [role |-> "user", content |-> results],
     [role |-> "assistant", content |-> content] >>
FollowUpTurns(content, results) ==
  << [role |-> "assistant", content |-> content],
     [role |-> "user", content |-> results] >>

\* textBlock?.type === 'text' ? textBlock.text : '' for the first text block
\* (FirstTextAtHead: the text of the first block when that is a text block).
FirstTextAtHead(content) ==
  IF content # <<>> /\ content[1].type = "text" THEN content[1].text ELSE <<>>
FirstText(content) ==
  LET texts == SelectSeq(content, LAMBDA b : b.type = "text")
  IN IF texts = <<>> THEN <<>> ELSE texts[1].text

\* synthesizerInstructionOfTerm: an instruction that names the search term in
\* place of the format.
synthesizerInstructionOfTerm(question, p) ==
  <<"La pregunta del usuario es: \"">> \o ToStr(question)
    \o <<"\". El formato de respuesta deseado es: ">> \o ToStr(p.search_term)
    \o <<". Te envio los datos de investigacion para que los estructures en una respuesta clara.">>
synthesizerInstruction(question, p) ==
  <<"La pregunta del usuario es: \"">> \o ToStr(question)
    \o <<"\". El formato de respuesta deseado es: ">> \o ToStr(p.response_format)
    \o <<". Te envio los datos de investigacion para que los estructures en una respuesta clara.">>

\* The events from the end of the loop to the synthesizer call
\* (ReviewEventsNoReview: without the supervisor's review).
ReviewEventsNoReview(question, p) ==
  << [type |-> "supervisor_delegate", to |-> "synthesizer",
      instructions |-> synthesizerInstruction(question, p)],
     [type |-> "synthesizer_start"] >>
ReviewEvents(question, p) ==
  << [type |-> "supervisor_review"],
     [type |-> "supervisor_delegate", to |-> "synthesizer",
      instructions |-> synthesizerInstruction(question, p)],
     [type |-> "synthesizer_start"] >>

\* The end of the for loop's segment: the wait for a helper, or the two turns
\* pushed and the next researcher call (AfterDispatchCapped: a loop that is
\* left after its first round).
AfterDispatchCapped(d, content) ==
  /\ Segment(d.events, FALSE, TypeErrorValue,
             IF d.awaits THEN "await_tool" ELSE "done")
  /\ toolResults' = IF Aborts(d.events, FALSE) THEN toolResults ELSE d.toolResults
  /\ blockIdx' = IF Aborts(d.events, FALSE) THEN blockIdx ELSE d.blockIdx
  /\ researcherMessages' =
       IF Aborts(d.events, FALSE) \/ d.awaits THEN researcherMessages
       ELSE researcherMessages \o FollowUpTurns(content, d.toolResults)
  /\ calls' =
       IF Aborts(d.events, FALSE) \/ ~d.awaits THEN calls
       ELSE Append(calls, HelperCall(toolUseBlocks(content)[d.blockIdx]))
AfterDispatch(d, content) ==
  /\ Segment(d.events, FALSE, TypeErrorValue,
             IF d.awaits THEN "await_tool" ELSE "await_researcher")
  /\ toolResults' = IF Aborts(d.events, FALSE) THEN toolResults ELSE d.toolResults
  /\ blockIdx' = IF Aborts(d.events, FALSE) THEN blockIdx ELSE d.blockIdx
  /\ researcherMessages' =
       IF Aborts(d.events, FALSE) \/ d.awaits THEN researcherMessages
       ELSE researcherMessages \o FollowUpTurns(content, d.toolResults)
  /\ calls' =
       IF Aborts(d.events, FALSE) THEN calls
       ELSE IF d.awaits
         THEN Append(calls, HelperCall(toolUseBlocks(content)[d.blockIdx]))
       ELSE Append(calls, ResearcherCall(req, researcherMessages'))

ResearcherThrows ==
  /\ pc = "await_researcher"
  /\ \E e \in APIErrors :
       /\ Segment(<<>>, TRUE, e, "done")
       /\ received' = Append(received, Settled("error", e))
  /\ UNCHANGED <<req, supervisorResponse, plan, researcherMessages,
                 researcherResponse, toolResults, blockIdx, iter,
                 researchSummary, synthesizerResponse, calls, articleRes, other, pageVars>>

\* A researcher response whose stop_reason is tool_use.
ResearcherRequestsTools ==
  /\ pc = "await_researcher"
  /\ iter < MaxIter
  /\ \E content \in ToolUseContents(iter + 1) :
       /\ researcherResponse' = Response("tool_use", content)
       /\ received' = Append(received, Settled("researcher", Response("tool_use", content)))
       /\ AfterDispatch(Dispatch(toolUseBlocks(content), 1, ThinkingEvents(content), <<>>),
                        content)
  /\ iter' = iter + 1
  /\ UNCHANGED <<req, supervisorResponse, plan, researchSummary, synthesizerResponse,
                 articleRes, other, pageVars>>

\* The synthesizer call: one turn with the instruction and the findings, no
\* tools (SynthesizerCallAfterHistory: that turn after the researcher's
\* conversation).
SynthesizerCallAfterHistory(r, p, summary) ==
  ModelCall("synthesizer", r.synthesizerModel, FALSE,
            researcherMessages
              \o <<[role |-> "user",
                    content |-> synthesizerInstruction(r.question, p)
                                  \o <<"\n\nDatos de investigacion:\n">>
                                  \o ToStr(summary)]>>)
SynthesizerCall(r, p, summary) ==
  ModelCall("synthesizer", r.synthesizerModel, FALSE,
            <<[role |-> "user",
               content |-> synthesizerInstruction(r.question, p)
                             \o <<"\n\nDatos de investigacion:\n">> \o ToStr(summary)]>>)

\* A researcher response with another stop_reason.
ResearcherEnds ==
  /\ pc = "await_researcher"
  /\ \E r \in TerminalResponses(iter + 1) :
       LET thinking == ThinkingEvents(r.content)
           evs == thinking \o <<[type |-> "researcher_done"]>>
                    \o ReviewEvents(req.question, plan)
       IN /\ researcherResponse' = Response(r.stop_reason, r.content)
          /\ received' =
               Append(received, Settled("researcher", Response(r.stop_reason, r.content)))
          /\ Segment(evs, FALSE, TypeErrorValue, "await_synthesizer")
          /\ researchSummary' =
               IF ~CanEnqueue /\ thinking # <<>> THEN researchSummary
               ELSE FirstText(r.content)
          /\ calls' = IF Aborts(evs, FALSE) THEN calls
                      ELSE Append(calls, SynthesizerCall(req, plan, FirstText(r.content)))
  /\ iter' = iter + 1
  /\ UNCHANGED <<req, supervisorResponse, plan, researcherMessages, toolResults,
                 blockIdx, synthesizerResponse, articleRes, other, pageVars>>

\* The result string and the researcher_tool_result event of a helper's value.
SearchResult(results) ==
  IF Len(results) > 0
    THEN Join([i \in 1..Len(results) |->
                 <<"* ">> \o results[i].title \o <<": ">> \o results[i].snippet],
              <<"\n">>)
    ELSE <<"Sin resultados.">>

SearchResultEvent(name, results) ==
  [type |-> "researcher_tool_result", tool |-> name,
   resultPreview |-> IF Len(results) > 0
                       THEN Join([i \in 1..Len(results) |-> results[i].title], <<", ">>)
                       ELSE <<"Sin resultados">>,
   count |-> Len(results)]

ArticleResultEvent(name, result) ==
  [type |-> "researcher_tool_result", tool |-> name,
   resultPreview |-> IF Length(result) > PreviewCap
                       THEN Slice(result, PreviewCap) \o <<"...">>
                       ELSE result]

InputProp(block, key) ==
  IF key \in DOMAIN block.input THEN block.input[key] ELSE Undefined

\* The helper awaited for block blockIdx returns r or throws.
ToolEnds(block, r, result, event) ==
  IF r.throws
    THEN /\ Segment(<<>>, TRUE, r.error, "done")
         /\ UNCHANGED <<toolResults, blockIdx, researcherMessages, calls>>
    ELSE AfterDispatch(
           Dispatch(toolUseBlocks(researcherResponse.content), blockIdx + 1, <<event>>,
                    Append(toolResults, ToolResultBlock(block, result))),
           researcherResponse.content)

SearchReturns ==
  /\ pc = "await_tool"
  /\ LET block == toolUseBlocks(researcherResponse.content)[blockIdx]
     IN /\ block.name = "search_wikipedia"
        /\ \E out \in SearchOutcomes :
             LET r == searchWikipedia(out)
             IN /\ ToolEnds(block, r, SearchResult(r.value),
                            SearchResultEvent(block.name, r.value))
                /\ received' = Append(received, Settled("search", r))
  /\ UNCHANGED <<req, supervisorResponse, plan, researcherResponse, iter,
                 researchSummary, synthesizerResponse, articleRes, other, pageVars>>

ArticleReturns ==
  /\ pc = "await_tool"
  /\ LET block == toolUseBlocks(researcherResponse.content)[blockIdx]
     IN /\ block.name = "get_wikipedia_article"
        /\ \E out \in ArticleOutcomes :
             LET r == getWikipediaArticle(InputProp(block, "title"), out)
             IN /\ ToolEnds(block, r, r.value, ArticleResultEvent(block.name, r.value))
                /\ articleRes' =
                     IF out.kind = "reject" THEN articleRes
                     ELSE [fetched |-> TRUE, id |-> block.id,
                           title |-> InputProp(block, "title"),
                           ok |-> out.kind # "status"]
                /\ received' = Append(received, Settled("article", r))
  /\ UNCHANGED <<req, supervisorResponse, plan, researcherResponse, iter,
                 researchSummary, synthesizerResponse, other, pageVars>>

----------------------------------------------------------------------------
\* Phases 4 and 5: the synthesizer, and the end of the run

SynthesizerThrows ==
  /\ pc = "await_synthesizer"
  /\ \E e \in APIErrors :
       /\ Segment(<<>>, TRUE, e, "done")
       /\ received' = Append(received, Settled("error", e))
  /\ UNCHANGED <<req, supervisorResponse, plan, researcherMessages,
                 researcherResponse, toolResults, blockIdx, iter,
                 researchSummary, synthesizerResponse, calls, articleRes, other, pageVars>>

\* The events after the synthesizer's response: none when the content has no
\* first block, whose type cannot be read (FinalEventsEarly: synthesizer_done
\* emitted before the first block is read).
FinalEventsEarly(content) ==
  << [type |-> "synthesizer_done", answer |-> <<>>] >>
FinalEvents(content) ==
  IF content = <<>> THEN <<>>
  ELSE << [type |-> "synthesizer_done", answer |-> FirstBlockText(content)],
          [type |-> "supervisor_done"] >>

SynthesizerReturns ==
  /\ pc = "await_synthesizer"
  /\ \E content \in SynthesizerContents :
       /\ synthesizerResponse' = Response("end_turn", content)
       /\ received' = Append(received, Settled("synthesizer", content))
       /\ Segment(FinalEvents(content), content = <<>>, TypeErrorValue, "done")
  /\ UNCHANGED <<req, supervisorResponse, plan, researcherMessages,
                 researcherResponse, toolResults, blockIdx, iter, researchSummary,
                 calls, articleRes, other, pageVars>>

----------------------------------------------------------------------------
\* The consumer

\* The consumer cancels the stream while start() is suspended at an await.
Cancel ==
  /\ pc \in {"await_supervisor", "await_researcher", "await_tool", "await_synthesizer"}
  /\ streamState = "readable"
  /\ streamState' = "closed"
  /\ closedBy' = "cancel"
  /\ UNCHANGED <<pc, req, events, failedEmits, closeThrew, outcome,
                 supervisorResponse, plan, researcherMessages, researcherResponse,
                 toolResults, blockIdx, iter, researchSummary, synthesizerResponse,
                 calls, articleRes, received, other, pageVars>>

----------------------------------------------------------------------------
\* The run with a consumer that reads to the end

Next ==
  \/ Start
  \/ SupervisorThrows
  \/ SupervisorReturns
  \/ ResearcherThrows
  \/ ResearcherRequestsTools
  \/ ResearcherEnds
  \/ SearchReturns
  \/ ArticleReturns
  \/ SynthesizerThrows
  \/ SynthesizerReturns

Spec == Init /\ [][Next]_vars

\* The run with a consumer that may cancel
NextCancel == Next \/ Cancel

SpecCancel == Init /\ [][NextCancel]_vars

\* The run in which every awaited call settles: no promise of a model call or
\* of a helper stays pending for ever, so a step of Next that is possible is
\* eventually taken.  The researcher answers with stop_reason tool_use at most
\* MaxIter times.
SpecFair == Init /\ [][Next]_vars /\ WF_vars(Next)

----------------------------------------------------------------------------
\* Two invocations of POST in one process

\* The locals of the invocation that runs: what POST and start() declare.
Locals ==
  [pc |-> pc, req |-> req, events |-> events, streamState |-> streamState,
   closedBy |-> closedBy, failedEmits |-> failedEmits, closeThrew |-> closeThrew,
   outcome |-> outcome, supervisorResponse |-> supervisorResponse, plan |-> plan,
   researcherMessages |-> researcherMessages,
   researcherResponse |-> researcherResponse, toolResults |-> toolResults,
   blockIdx |-> blockIdx, iter |-> iter, researchSummary |-> researchSummary,
   synthesizerResponse |-> synthesizerResponse, calls |-> calls,
   articleRes |-> articleRes, received |-> received]

\* The conversation an invocation finds when it runs again: its own, for
\* researcherMessages is declared inside start() (SharedMessages: the one the
\* other invocation left, were it declared in the module).
SharedMessages(current, own) == current
OwnMessages(current, own) == own

\* A second request arrives while the first invocation is suspended or over:
\* POST is invoked again and builds its own stream.
Accept ==
  /\ other = NoOther
  /\ pc # "start"
  /\ other' = Locals
  /\ pc' = "start"
  /\ req' \in Requests
  /\ events' = <<>>
  /\ streamState' = "readable"
  /\ closedBy' = "none"
  /\ failedEmits' = 0
  /\ closeThrew' = FALSE
  /\ outcome' = "running"
  /\ supervisorResponse' = NoResponse
  /\ plan' = [search_term |-> Undefined, response_format |-> Undefined]
  /\ researcherMessages' = OwnMessages(researcherMessages, <<>>)
  /\ researcherResponse' = NoResponse
  /\ toolResults' = <<>>
  /\ blockIdx' = 0
  /\ iter' = 0
  /\ researchSummary' = <<>>
  /\ synthesizerResponse' = NoResponse
  /\ calls' = <<>>
  /\ articleRes' = NoArticleRes
  /\ received' = <<>>
  /\ UNCHANGED pageVars

\* The event loop runs, next, a continuation of the other invocation.
Switch ==
  /\ other # NoOther
  /\ other' = Locals
  /\ pc' = other.pc
  /\ req' = other.req
  /\ events' = other.events
  /\ streamState' = other.streamState
  /\ closedBy' = other.closedBy
  /\ failedEmits' = other.failedEmits
  /\ closeThrew' = other.closeThrew
  /\ outcome' = other.outcome
  /\ supervisorResponse' = other.supervisorResponse
  /\ plan' = other.plan
  /\ researcherMessages' = OwnMessages(researcherMessages, other.researcherMessages)
  /\ researcherResponse' = other.researcherResponse
  /\ toolResults' = other.toolResults
  /\ blockIdx' = other.blockIdx
  /\ iter' = other.iter
  /\ researchSummary' = other.researchSummary
  /\ synthesizerResponse' = other.synthesizerResponse
  /\ calls' = other.calls
  /\ articleRes' = other.articleRes
  /\ received' = other.received
  /\ UNCHANGED pageVars

\* The responses the two runs are given: a plan with both fields, at most
\* TwoRunsMaxIter requests for tools (a search and an article), a terminal
\* response of one block, an answer of one block; a helper returns (a status
\* that is not ok, or a short extract, for an article); a model call may throw.
InTwoRunsScope ==
  /\ \A i \in DOMAIN events :
       events[i].type = "error" => events[i].message = <<"APIError">>
  /\ \A k \in DOMAIN toolResults :
       toolResults[k].content \notin {LongExtract, <<"Articulo sin contenido.">>}
  /\ supervisorResponse.returned =>
       /\ supervisorResponse.content # <<>>
       /\ supervisorResponse.content[1].type = "text"
       /\ LET parsed == JSONParse(supervisorResponse.content[1].text)
          IN /\ parsed.ok /\ parsed.kind = "object"
             /\ {"search_term", "response_format"} \subseteq DOMAIN parsed.fields
  /\ researcherResponse.returned =>
       IF researcherResponse.stop_reason = "tool_use"
         THEN /\ iter <= TwoRunsMaxIter
              /\ \E i \in DOMAIN researcherResponse.content :
                   researcherResponse.content[i].name = "get_wikipedia_article"
         ELSE /\ researcherResponse.stop_reason = "end_turn"
              /\ Len(researcherResponse.content) = 1
  /\ synthesizerResponse.returned => Len(synthesizerResponse.content) = 1

NextTwo ==
  \/ Start /\ InTwoRunsScope'
  \/ SupervisorThrows /\ InTwoRunsScope'
  \/ SupervisorReturns /\ InTwoRunsScope'
  \/ ResearcherThrows /\ InTwoRunsScope'
  \/ ResearcherRequestsTools /\ InTwoRunsScope'
  \/ ResearcherEnds /\ InTwoRunsScope'
  \/ SearchReturns /\ InTwoRunsScope'
  \/ ArticleReturns /\ InTwoRunsScope'
  \/ SynthesizerThrows /\ InTwoRunsScope'
  \/ SynthesizerReturns /\ InTwoRunsScope'
  \/ Accept
  \/ Switch

SpecTwo == Init /\ [][NextTwo]_vars

----------------------------------------------------------------------------
\* The page (src/app/page.tsx): what it is sent

\* The invocations of handleSubmit in a run of the model, and the chunks an
\* invocation is still sent after a reset.
MaxSubmits == 1
MaxStaleChunks == 1

\* The text on the wire, as tokens: a piece of plain text, or the JSON text
\* of an event.
Tok(s) == [tok |-> s]
Json(e) == [tok |-> "json", value |-> e]

\* emit: one chunk 'data: ' + JSON.stringify(event) + '\n\n' for an event.
\* JSON.stringify leaves out the properties whose value is undefined.
\* (The properties whose value is a string of the run, and so may be
\* undefined, are those of ValueProps.)
ValueProps ==
  {"searchTerm", "responseFormat", "instructions", "text", "resultPreview",
   "answer", "message"}
Stringify(e) ==
  Json([k \in {f \in DOMAIN e : ~(f \in ValueProps /\ e[f] = Undefined)} |-> e[k]])
Frame(e) == <<Tok("data: "), Stringify(e), Tok("\n"), Tok("\n")>>

\* A property of a parsed event, undefined when the text did not hold it.
EventProp(e, key) == IF key \in DOMAIN e THEN e[key] ELSE Undefined

PageQuestion == <<"What is X?">>
PagePlan == [search_term |-> <<"X">>, response_format |-> <<"short summary">>]
PageRequest == ToolUseBlock(<<1, 1>>, "search_wikipedia", ("query" :> <<"X">>))

\* The events of a run of the route up to the first researcher call, and up
\* to the end of a round of tools: a thought, a search and its result.
PlanningEvents == <<[type |-> "supervisor_start"]>> \o PlanEvents(PagePlan)

ResearchEvents ==
  PlanningEvents
    \o ThinkingEvents(<<TextBlock(<<"I", " ", "search">>), PageRequest>>)
    \o << ToolCallEvent(PageRequest),
          SearchResultEvent(PageRequest.name,
                            searchWikipedia([kind |-> "ok", hasPages |-> TRUE,
                                             pages |-> <<Page(1), Page(2)>>]).value) >>

\* The events of a run that completes, the researcher asking for no tool.
SuccessfulEvents ==
  PlanningEvents
    \o <<[type |-> "researcher_done"]>>
    \o ReviewEvents(PageQuestion, PagePlan)
    \o FinalEvents(<<TextBlock(<<"#", " ", "X">>)>>)

\* The events of a run whose planner call, or whose second researcher call,
\* is rejected.
PlannerFailedEvents ==
  <<[type |-> "supervisor_start"]>> \o CatchBlock([isError |-> TRUE, message |-> <<"APIError">>])
ResearchFailedEvents ==
  ResearchEvents \o CatchBlock([isError |-> TRUE, message |-> <<"APIError">>])

\* The chunks of a body: one chunk for every enqueue.
RECURSIVE Frames(_)
Frames(evs) == IF evs = <<>> THEN <<>> ELSE <<Frame(Head(evs))>> \o Frames(Tail(evs))

\* The same bytes cut elsewhere by the transport: the first two frames in one
\* chunk with the head of the third, whose rest comes with the next chunk.
Rechunked(chunks) ==
  IF Len(chunks) < 3 THEN chunks
  ELSE << chunks[1] \o chunks[2] \o SubSeq(chunks[3], 1, 1),
          SubSeq(chunks[3], 2, Len(chunks[3])) >>
         \o SubSeq(chunks, 4, Len(chunks))

\* What fetch may settle with: it rejects; a status that is not ok; a response
\* without a body; or a body, as chunks, that ends (closed) or breaks (read
\* rejects) after them.
PageResponses ==
  { [kind |-> "reject", chunks |-> <<>>, ends |-> "closed"],
    [kind |-> "status", chunks |-> <<>>, ends |-> "closed"],
    [kind |-> "nobody", chunks |-> <<>>, ends |-> "closed"],
    [kind |-> "ok", chunks |-> Frames(SuccessfulEvents), ends |-> "closed"],
    [kind |-> "ok", chunks |-> Frames(PlannerFailedEvents), ends |-> "closed"],
    [kind |-> "ok", chunks |-> Rechunked(Frames(ResearchFailedEvents)), ends |-> "closed"],
    [kind |-> "ok", chunks |-> Frames(PlanningEvents), ends |-> "broken"],
    [kind |-> "ok", chunks |-> Frames(PlanningEvents), ends |-> "closed"] }

\* buffer.split('\n'): the pieces between the line feeds.
RECURSIVE SplitLines(_, _)
SplitLines(s, piece) ==
  IF s = <<>> THEN <<piece>>
  ELSE IF Head(s) = Tok("\n") THEN <<piece>> \o SplitLines(Tail(s), <<>>)
  ELSE SplitLines(Tail(s), Append(piece, Head(s)))

\* The events of the lines of a chunk: a line that starts with 'data: ', and
\* whose rest is not blank and is JSON text, is parsed.
RECURSIVE EventsOfLines(_)
EventsOfLines(lines) ==
  IF lines = <<>> THEN <<>>
  ELSE LET line == Head(lines)
       IN (IF Len(line) = 2 /\ line[1] = Tok("data: ") /\ line[2].tok = "json"
             THEN <<line[2].value>> ELSE <<>>)
            \o EventsOfLines(Tail(lines))

----------------------------------------------------------------------------
\* The page: the switch over event.type

\* setSupervisorStatus, setResearcherStatus, setSynthesizerStatus: the status
\* after an event (SupervisorStatusOnNoReview: a supervisor that is not made
\* active again when the research is done or reviewed).
StatusOnError(s) == IF s = "activo" THEN "error" ELSE s

SupervisorStatusOnNoReview(event, s) ==
  IF event.type = "supervisor_delegate"
    THEN (IF event.to = "researcher" THEN "listo" ELSE s)
  ELSE IF event.type = "supervisor_done" THEN "listo"
  ELSE IF event.type = "error" THEN StatusOnError(s)
  ELSE s
SupervisorStatusOn(event, s) ==
  IF event.type = "supervisor_delegate"
    THEN (IF event.to = "researcher" THEN "listo" ELSE s)
  ELSE IF event.type \in {"supervisor_review", "researcher_done"} THEN "activo"
  ELSE IF event.type = "supervisor_done" THEN "listo"
  ELSE IF event.type = "error" THEN StatusOnError(s)
  ELSE s

ResearcherStatusOn(event, s) ==
  IF event.type = "supervisor_delegate"
    THEN (IF event.to = "researcher" THEN "activo" ELSE s)
  ELSE IF event.type = "researcher_done" THEN "listo"
  ELSE IF event.type = "error" THEN StatusOnError(s)
  ELSE s

SynthesizerStatusOn(event, s) ==
  IF event.type = "supervisor_delegate"
    THEN (IF event.to = "researcher" THEN s ELSE "activo")
  ELSE IF event.type = "synthesizer_done" THEN "listo"
  ELSE IF event.type = "error" THEN StatusOnError(s)
  ELSE s

\* The log lines.
Info(text) == [kind |-> "info", text |-> text]
Success(text) == [kind |-> "success", text |-> text]

SupervisorLogOn(event, l) ==
  IF event.type = "supervisor_start" THEN Append(l, Info(EventProp(event, "message")))
  ELSE IF event.type = "supervisor_plan"
    THEN l \o << [kind |-> "plan", label |-> <<"Termino a investigar">>,
                  value |-> EventProp(event, "searchTerm")],
                 [kind |-> "plan", label |-> <<"Formato de respuesta">>,
                  value |-> EventProp(event, "responseFormat")] >>
  ELSE IF event.type = "supervisor_delegate"
    THEN Append(l, Info(IF event.to = "researcher"
                          THEN <<"-> Delegando tarea al Researcher...">>
                          ELSE <<"-> Delegando sintesis al Synthesizer...">>))
  ELSE IF event.type = "supervisor_review" THEN Append(l, Info(EventProp(event, "message")))
  ELSE IF event.type = "supervisor_done"
    THEN Append(l, Success(<<"Pipeline completado con exito.">>))
  ELSE l

\* event.input.query ?? event.input.title ?? ''
ToolParam(input) ==
  IF "query" \in DOMAIN input /\ input["query"] \notin {Undefined, Null} THEN input["query"]
  ELSE IF "title" \in DOMAIN input /\ input["title"] \notin {Undefined, Null}
    THEN input["title"]
  ELSE <<>>

ResearcherLogOn(event, l) ==
  IF event.type = "researcher_start" THEN <<Info(<<"Iniciando investigacion...">>)>>
  ELSE IF event.type = "researcher_thinking"
    THEN Append(l, [kind |-> "thinking", text |-> EventProp(event, "text")])
  ELSE IF event.type = "researcher_tool_call"
    THEN Append(l, [kind |-> "tool_call", tool |-> EventProp(event, "tool"),
                    param |-> ToolParam(event.input)])
  ELSE IF event.type = "researcher_tool_result"
    THEN Append(l, [kind |-> "tool_result", preview |-> EventProp(event, "resultPreview"),
                    count |-> EventProp(event, "count")])
  ELSE IF event.type = "researcher_done"
    THEN Append(l, Success(<<"Investigacion completada. Enviando hallazgos al Supervisor.">>))
  ELSE l

SynthesizerLogOn(event, l) ==
  IF event.type = "synthesizer_start"
    THEN <<Info(<<"Estructurando la respuesta final...">>)>>
  ELSE IF event.type = "synthesizer_done" THEN Append(l, Success(<<"Sintesis completada.">>))
  ELSE l

\* setHandoffToResearcher, setHandoffToSynthesizer
Handoff(to, event) ==
  [from |-> "Supervisor", to |-> to, instructions |-> EventProp(event, "instructions")]

HandoffToResearcherOn(event, h) ==
  IF event.type = "supervisor_delegate" /\ event.to = "researcher"
    THEN Handoff("Researcher", event) ELSE h

HandoffToSynthesizerOn(event, h) ==
  IF event.type = "supervisor_delegate" /\ event.to # "researcher"
    THEN Handoff("Synthesizer", event) ELSE h

\* setFinalAnswer, setError
FinalAnswerOn(event, a) ==
  IF event.type = "synthesizer_done" THEN EventProp(event, "answer") ELSE a

ErrorOn(event, e) ==
  IF event.type = "error" THEN EventProp(event, "message") ELSE e

\* The for loop over the lines of a chunk: a setter's updates applied in the
\* order of the events.
StateOn(setter, event, s) ==
  IF setter = "supervisorStatus" THEN SupervisorStatusOn(event, s)
  ELSE IF setter = "researcherStatus" THEN ResearcherStatusOn(event, s)
  ELSE IF setter = "synthesizerStatus" THEN SynthesizerStatusOn(event, s)
  ELSE IF setter = "supervisorLog" THEN SupervisorLogOn(event, s)
  ELSE IF setter = "researcherLog" THEN ResearcherLogOn(event, s)
  ELSE IF setter = "synthesizerLog" THEN SynthesizerLogOn(event, s)
  ELSE IF setter = "handoffToResearcher" THEN HandoffToResearcherOn(event, s)
  ELSE IF setter = "handoffToSynthesizer" THEN HandoffToSynthesizerOn(event, s)
  ELSE IF setter = "finalAnswer" THEN FinalAnswerOn(event, s)
  ELSE ErrorOn(event, s)

RECURSIVE AfterEvents(_, _, _)
AfterEvents(setter, evs, s) ==
  IF evs = <<>> THEN s ELSE AfterEvents(setter, Tail(evs), StateOn(setter, Head(evs), s))

----------------------------------------------------------------------------
\* The page: reset, handleSubmit and the read loop

routeVars ==
  <<pc, req, events, streamState, closedBy, failedEmits, closeThrew, outcome,
    supervisorResponse, plan, researcherMessages, researcherResponse,
    toolResults, blockIdx, iter, researchSummary, synthesizerResponse,
    calls, articleRes, received, other>>

\* reset(), followed in the same handler by setRunning(run) and
\* setSupervisorStatus(supervisor): reset(FALSE, "esperando") is reset() alone.
reset(run, supervisor) ==
  /\ running' = run
  /\ done' = FALSE
  /\ finalAnswer' = <<>>
  /\ error' = <<>>
  /\ supervisorStatus' = supervisor
  /\ researcherStatus' = "esperando"
  /\ synthesizerStatus' = "esperando"
  /\ supervisorLog' = <<>>
  /\ researcherLog' = <<>>
  /\ synthesizerLog' = <<>>
  /\ handoffToResearcher' = Null
  /\ handoffToSynthesizer' = Null

\* The textarea, disabled while running.
SetQuestion ==
  /\ ~running
  /\ \E q \in {<<" ">>, PageQuestion} :
       /\ q # questionInput
       /\ questionInput' = q
  /\ UNCHANGED <<running, done, finalAnswer, error, supervisorStatus,
                 researcherStatus, synthesizerStatus, supervisorLog, researcherLog,
                 synthesizerLog, handoffToResearcher, handoffToSynthesizer,
                 submissions, routeVars>>

\* The button Reiniciar, rendered while running or done.  (superseded records
\* that reset() ran after the invocation was submitted, and stale the chunks
\* the invocation has read since; reset() itself knows nothing of the
\* invocations.)
ClickReset ==
  /\ running \/ done
  /\ reset(FALSE, "esperando")
  /\ submissions' = [i \in DOMAIN submissions |->
                       [submissions[i] EXCEPT !.superseded = TRUE]]
  /\ UNCHANGED <<questionInput, routeVars>>

\* if (!question.trim() || running) return, which is also when the submit
\* button is disabled.
CanSubmit == ~(Trim(questionInput) = <<>> \/ running)

\* handleSubmit up to the await of fetch.  (alone records that every earlier
\* invocation had returned.)
handleSubmit ==
  /\ CanSubmit
  /\ Len(submissions) < MaxSubmits
  /\ reset(TRUE, "activo")
  /\ submissions' =
       Append(submissions,
              [at |-> "fetch", question |-> questionInput, chunks |-> <<>>,
               ends |-> "closed", next |-> 1, buffer |-> <<>>,
               superseded |-> FALSE, stale |-> 0,
               alone |-> \A i \in DOMAIN submissions : submissions[i].at = "returned"])
  /\ UNCHANGED <<questionInput, routeVars>>

\* The message of what the try block throws before the read loop.
FetchError(res) ==
  IF res.kind = "reject" THEN <<"Failed to fetch">>
  ELSE IF res.kind = "status" THEN <<"HTTP ", "500">>
  ELSE <<"Sin stream">>

\* The catch block and the finally block of handleSubmit.
SubmitCatch(i, message) ==
  /\ error' = message
  /\ running' = FALSE
  /\ submissions' = [submissions EXCEPT ![i].at = "returned"]

\* fetch settles for an invocation.
FetchSettles ==
  \E i \in DOMAIN submissions : \E res \in PageResponses :
    /\ submissions[i].at = "fetch"
    /\ IF res.kind = "ok"
         THEN /\ submissions' = [submissions EXCEPT ![i].at = "read",
                                                    ![i].chunks = res.chunks,
                                                    ![i].ends = res.ends]
              /\ UNCHANGED <<running, error>>
         ELSE SubmitCatch(i, FetchError(res))
    /\ UNCHANGED <<questionInput, done, finalAnswer, supervisorStatus,
                   researcherStatus, synthesizerStatus, supervisorLog, researcherLog,
                   synthesizerLog, handoffToResearcher, handoffToSynthesizer,
                   routeVars>>

\* The events an invocation takes from its next chunk, and the buffer it
\* keeps.
Pieces(sub) == SplitLines(sub.buffer \o sub.chunks[sub.next], <<>>)
ChunkEvents(sub) == EventsOfLines(SubSeq(Pieces(sub), 1, Len(Pieces(sub)) - 1))

\* reader.read() resolves with a chunk: one round of the while loop.
ReadChunk ==
  \E i \in DOMAIN submissions :
    LET sub == submissions[i]
    IN /\ sub.at = "read"
       /\ sub.next <= Len(sub.chunks)
       /\ sub.superseded => sub.stale < MaxStaleChunks
       /\ LET evs == ChunkEvents(sub)
          IN /\ supervisorStatus' = AfterEvents("supervisorStatus", evs, supervisorStatus)
             /\ researcherStatus' = AfterEvents("researcherStatus", evs, researcherStatus)
             /\ synthesizerStatus' = AfterEvents("synthesizerStatus", evs, synthesizerStatus)
             /\ supervisorLog' = AfterEvents("supervisorLog", evs, supervisorLog)
             /\ researcherLog' = AfterEvents("researcherLog", evs, researcherLog)
             /\ synthesizerLog' = AfterEvents("synthesizerLog", evs, synthesizerLog)
             /\ handoffToResearcher' =
                  AfterEvents("handoffToResearcher", evs, handoffToResearcher)
             /\ handoffToSynthesizer' =
                  AfterEvents("handoffToSynthesizer", evs, handoffToSynthesizer)
             /\ finalAnswer' = AfterEvents("finalAnswer", evs, finalAnswer)
             /\ error' = AfterEvents("error", evs, error)
       /\ submissions' = [submissions EXCEPT
                            ![i].next = sub.next + 1,
                            ![i].buffer = Pieces(sub)[Len(Pieces(sub))],
                            ![i].stale = IF sub.superseded THEN sub.stale + 1 ELSE 0]
       /\ UNCHANGED <<questionInput, running, done, routeVars>>

\* reader.read() resolves with done, or rejects: the end of handleSubmit.
ReadEnds ==
  \E i \in DOMAIN submissions :
    LET sub == submissions[i]
    IN /\ sub.at = "read"
       /\ sub.next > Len(sub.chunks)
       /\ IF sub.ends = "closed"
            THEN /\ done' = TRUE
                 /\ running' = FALSE
                 /\ submissions' = [submissions EXCEPT ![i].at = "returned"]
                 /\ UNCHANGED error
            ELSE /\ SubmitCatch(i, <<"network error">>)
                 /\ UNCHANGED done
       /\ UNCHANGED <<questionInput, finalAnswer, supervisorStatus,
                      researcherStatus, synthesizerStatus, supervisorLog,
                      researcherLog, synthesizerLog, handoffToResearcher,
                      handoffToSynthesizer, routeVars>>

NextPage ==
  \/ SetQuestion
  \/ ClickReset
  \/ handleSubmit
  \/ FetchSettles
  \/ ReadChunk
  \/ ReadEnds

SpecPage == Init /\ [][NextPage]_vars

----------------------------------------------------------------------------
\* The events of a run

HasEvent(t) == \E i \in DOMAIN events : events[i].type = t
CountEvents(t) == Cardinality({i \in DOMAIN events : events[i].type = t})
LastType == IF events = <<>> THEN "" ELSE events[Len(events)].type

\* The kind of an event: its type, and for a delegation its addressee.
Kind(e) ==
  IF e.type = "supervisor_delegate" THEN "delegate_" \o e.to ELSE e.type

\* The order of the kinds as an automaton: the position after an event of kind
\* k at position st.  With review, supervisor_review stands between
\* researcher_done and the delegation to the synthesizer; without, nothing
\* does.  An error event ends the sequence from any position before the end.
OrderStep(review, st, k) ==
  IF k = "error" THEN (IF st \in {"reject", "end", "error"} THEN "reject" ELSE "error")
  ELSE IF st = "begin" /\ k = "supervisor_start" THEN "planning"
  ELSE IF st = "planning" /\ k = "supervisor_plan" THEN "planned"
  ELSE IF st = "planned" /\ k = "delegate_researcher" THEN "delegated"
  ELSE IF st = "delegated" /\ k = "researcher_start" THEN "research"
  ELSE IF st = "research" /\ k \in {"researcher_thinking", "researcher_tool_call",
                                    "researcher_tool_result"} THEN "research"
  ELSE IF st = "research" /\ k = "researcher_done" THEN "researched"
  ELSE IF review /\ st = "researched" /\ k = "supervisor_review" THEN "reviewed"
  ELSE IF st = (IF review THEN "reviewed" ELSE "researched") /\ k = "delegate_synthesizer"
    THEN "delegated2"
  ELSE IF st = "delegated2" /\ k = "synthesizer_start" THEN "synthesis"
  ELSE IF st = "synthesis" /\ k = "synthesizer_done" THEN "answered"
  ELSE IF st = "answered" /\ k = "supervisor_done" THEN "end"
  ELSE "reject"

RECURSIVE OrderAfter(_, _, _)
OrderAfter(review, st, evs) ==
  IF evs = <<>> THEN st
  ELSE OrderAfter(review, OrderStep(review, st, Kind(Head(evs))), Tail(evs))

\* The events written so far follow the order, and those of a finished run are
\* the whole sequence when the try block ended and a proper prefix of it and
\* one error event when something was thrown.
FollowsOrder(review) ==
  LET st == OrderAfter(review, "begin", events)
  IN /\ st # "reject"
     /\ pc = "done" => st = (IF outcome = "completed" THEN "end" ELSE "error")

----------------------------------------------------------------------------
\* Claims

\* C1 (as stated): the events of every run are, in order, supervisor_start,
\* supervisor_plan, the delegation to the researcher, researcher_start, any
\* number of thinking, tool-call and tool-result events, researcher_done, the
\* delegation to the synthesizer, synthesizer_start, synthesizer_done,
\* supervisor_done, or a proper prefix of that and an error event; nothing
\* stands between researcher_done and the delegation to the synthesizer.
C1_ClaimedOrder == FollowsOrder(FALSE)

\* C1 (amended): the same order with one supervisor_review event between
\* researcher_done and the delegation to the synthesizer.
C1_EventOrder == FollowsOrder(TRUE)

\* A finished run that used a tool, thought aloud and reached supervisor_done.
C1_Witness ==
  /\ pc = "done" /\ outcome = "completed" /\ LastType = "supervisor_done"
  /\ HasEvent("researcher_tool_result") /\ HasEvent("researcher_thinking")
  /\ HasEvent("supervisor_review")

\* C2: when a call throws, the run emits exactly one error event, that event
\* is the last of the stream, neither synthesizer_done nor supervisor_done is
\* emitted, and when it is the synthesizer call that threw the stream ends
\* synthesizer_start, error (for a consumer that reads to the end).
C2_OneErrorLast ==
  /\ outcome = "caught" =>
       /\ CountEvents("error") = 1
       /\ LastType = "error"
       /\ ~HasEvent("synthesizer_done") /\ ~HasEvent("supervisor_done")
  /\ (pc = "done" /\ HasEvent("synthesizer_start") /\ ~synthesizerResponse.returned) =>
       /\ Len(events) >= 2
       /\ events[Len(events) - 1].type = "synthesizer_start"
       /\ LastType = "error"
  /\ outcome # "caught" => ~HasEvent("error")

\* The synthesizer call threw.
C2_Witness ==
  /\ pc = "done" /\ outcome = "caught"
  /\ HasEvent("synthesizer_start") /\ ~synthesizerResponse.returned
  /\ events[Len(events)].message = <<"APIError">>

\* C3: every tool invocation, whatever the external source does (success, a
\* status that is not ok, a rejected fetch, a body that cannot be decoded),
\* yields a result string, the loop goes on, and no error event is emitted.
C3_ToolNeverAborts ==
  [][pc = "await_tool" =>
       /\ pc' \in {"await_tool", "await_researcher"}
       /\ Len(toolResults') > Len(toolResults)
       /\ \A i \in DOMAIN events' : events'[i].type # "error"]_vars

\* The results of a user turn answer the requests of the assistant turn, one
\* each, in order, with the ids of the requests.
Answers(results, content) ==
  LET requests == toolUseBlocks(content)
  IN /\ Len(results) = Len(requests)
     /\ \A k \in DOMAIN requests : results[k].tool_use_id = requests[k].id

\* C4: the user turn pushed for a tool_use response holds exactly one result
\* for every request of the response, with the id of the request, whether the
\* helper succeeded or not; no result is there without its request.
C4_ResultsPaired ==
  /\ \A i \in DOMAIN researcherMessages :
       /\ researcherMessages[i].role = (IF i % 2 = 0 THEN "assistant" ELSE "user")
       /\ researcherMessages[i].role = "assistant" =>
            /\ i < Len(researcherMessages)
            /\ Answers(researcherMessages[i + 1].content, researcherMessages[i].content)
  /\ pc = "await_tool" =>
       Answers(toolResults,
               SubSeq(toolUseBlocks(researcherResponse.content), 1, blockIdx - 1))

\* A pushed user turn with two results, one of them for an article that was
\* not found.
C4_Witness ==
  \E i \in DOMAIN researcherMessages :
    /\ i > 1 /\ researcherMessages[i].role = "user"
    /\ Len(researcherMessages[i].content) = 2
    /\ \E k \in 1..2 :
         researcherMessages[i].content[k].content = <<"No se encontro el articulo: ", "B">>

\* The planner outputs C5 calls malformed: a text without an opening brace
\* (prose, the empty string), or a JSON object that lacks search_term or
\* response_format.
MalformedPlannerOutput(content) ==
  /\ content # <<>>
  /\ content[1].type = "text"
  /\ LET parsed == JSONParse(content[1].text)
     IN \/ FirstIndex(content[1].text, "{") = 0 /\ ~parsed.ok
        \/ /\ parsed.ok /\ parsed.kind = "object"
           /\ {"search_term", "response_format"} \ DOMAIN parsed.fields # {}

\* C5: for every malformed planner output the supervisor_plan event carries
\* the question as searchTerm and the default directive as responseFormat.
C5_MalformedFallsBack ==
  (supervisorResponse.returned /\ MalformedPlannerOutput(supervisorResponse.content)
     /\ Len(events) >= 2) =>
    /\ events[2].type = "supervisor_plan"
    /\ events[2].searchTerm = req.question
    /\ events[2].responseFormat = DefaultFormat

\* C6: once the planner call has returned, whatever its segments, the run has
\* emitted supervisor_plan: reading and parsing the planner's output never
\* takes the run to the error event.
C6_PlannerOutputNeverFails ==
  supervisorResponse.returned => HasEvent("supervisor_plan")

\* The ids of the requests that have a result in a pushed user turn.
ResolvedIds ==
  UNION { {researcherMessages[i].content[k].tool_use_id :
             k \in DOMAIN researcherMessages[i].content} :
          i \in {j \in DOMAIN researcherMessages : j > 1 /\ researcherMessages[j].role = "user"} }

\* C7: researcher_done is emitted exactly when a researcher response has a
\* stop reason other than tool_use, and then every request of every researcher
\* response, the last one included, has its result.
C7_DoneWithNothingPending ==
  /\ HasEvent("researcher_done") =>
       /\ researcherResponse.returned /\ researcherResponse.stop_reason # "tool_use"
       /\ \A k \in DOMAIN researcherResponse.content :
            researcherResponse.content[k].type = "tool_use" =>
              researcherResponse.content[k].id \in ResolvedIds
  /\ (researcherResponse.returned /\ researcherResponse.stop_reason # "tool_use"
        /\ CanEnqueue) => HasEvent("researcher_done")

\* C8: the channel is closed exactly once, by controller.close(), after the
\* supervisor_done event or the error event, and no emit and no second close
\* is attempted on the closed channel (for a consumer that reads to the end).
C8_ClosedOnceAtEnd ==
  /\ (streamState = "closed") <=> (pc = "done")
  /\ pc = "done" =>
       /\ closedBy = "controller"
       /\ LastType \in {"supervisor_done", "error"}
       /\ LastType = "supervisor_done" <=> outcome = "completed"
  /\ failedEmits = 0 /\ ~closeThrew

\* A finished run whose channel was closed after the error event.
C8_Witness ==
  /\ pc = "done" /\ streamState = "closed" /\ closedBy = "controller"
  /\ LastType = "error" /\ HasEvent("researcher_tool_call")

\* C9: no run has both an error event and a synthesizer_done event, nor both
\* an error event and supervisor_done; synthesizer_done is emitted only after
\* the synthesizer call has returned.
C9_NoPartialSuccess ==
  /\ ~(HasEvent("error") /\ HasEvent("synthesizer_done"))
  /\ ~(HasEvent("error") /\ HasEvent("supervisor_done"))
  /\ HasEvent("synthesizer_done") => synthesizerResponse.returned
  /\ outcome = "caught" => ~HasEvent("synthesizer_done")

\* A run that was aborted at the synthesizer, after its response had come.
C9_Witness ==
  /\ pc = "done" /\ HasEvent("error") /\ HasEvent("synthesizer_start")
  /\ synthesizerResponse.returned

\* C10: once the pipeline has observed the cancellation (an emit threw on the
\* cancelled stream), it attempts no further emit.
C10_NothingAfterCancelObserved == failedEmits <= 1

C12_Terminates ==
  <>(/\ pc = "done"
     /\ LastType \in {"supervisor_done", "error"}
     /\ streamState = "closed" /\ closedBy = "controller")

\* A run that asked for tools MaxIter times, ended its research, and closed
\* the stream after supervisor_done.
C12_Witness ==
  /\ pc = "done" /\ iter = MaxIter + 1 /\ LastType = "supervisor_done"
  /\ streamState = "closed"

\* The tool_result blocks collected so far: those of the response in hand and
\* those of the user turns pushed.
CollectedResults ==
  {toolResults[k] : k \in DOMAIN toolResults}
    \cup UNION {{researcherMessages[i].content[k] :
                   k \in DOMAIN researcherMessages[i].content} :
                i \in {j \in DOMAIN researcherMessages :
                         j > 1 /\ researcherMessages[j].role = "user"}}

\* C13: when the fetch of get_wikipedia_article answers with a status that is
\* not ok, the result collected for the request is the not-found string with
\* the title, under the id of the request, its event is emitted with that
\* string, and no error event follows from it: the run goes on.
C13_NotFoundIsAResult ==
  (articleRes.fetched /\ ~articleRes.ok) =>
    LET notFound == <<"No se encontro el articulo: ">> \o ToStr(articleRes.title)
    IN /\ [type |-> "tool_result", tool_use_id |-> articleRes.id, content |-> notFound]
            \in CollectedResults
       /\ \E i \in DOMAIN events :
            /\ events[i].type = "researcher_tool_result"
            /\ events[i].tool = "get_wikipedia_article"
            /\ events[i].resultPreview = notFound
            /\ \A j \in 1..i : events[j].type # "error"

\* A run that got a status that is not ok for an article, pushed the result
\* in the follow-up turn and reached supervisor_done with no error event.
C13_Witness ==
  /\ articleRes.fetched /\ ~articleRes.ok
  /\ pc = "done" /\ outcome = "completed" /\ LastType = "supervisor_done"
  /\ ~HasEvent("error")
  /\ \E i \in DOMAIN researcherMessages :
       /\ i > 1 /\ researcherMessages[i].role = "user"
       /\ \E k \in DOMAIN researcherMessages[i].content :
            /\ researcherMessages[i].content[k].tool_use_id = articleRes.id
            /\ researcherMessages[i].content[k].content
                 = <<"No se encontro el articulo: ">> \o ToStr(articleRes.title)

\* The planner answered in prose: a text that is not empty, holds no brace and
\* is not a JSON value.
PlainProse(content) ==
  /\ content # <<>>
  /\ content[1].type = "text"
  /\ Trim(content[1].text) # <<>>
  /\ \A i \in DOMAIN content[1].text : content[1].text[i] \notin {"{", "}"}
  /\ ~JSONParse(content[1].text).ok

\* C14: when the planner answers in prose with no JSON object, supervisor_plan
\* carries the question as searchTerm and the default directive as
\* responseFormat, and the instruction of the delegation to the researcher
\* that follows quotes that question.
C14_ProseFallsBackToQuestion ==
  (supervisorResponse.returned /\ PlainProse(supervisorResponse.content)) =>
    /\ Len(events) >= 3
    /\ events[2] = [type |-> "supervisor_plan", searchTerm |-> req.question,
                    responseFormat |-> DefaultFormat]
    /\ events[3].type = "supervisor_delegate" /\ events[3].to = "researcher"
    /\ events[3].instructions[1] = "Busca informacion sobre: \""
    /\ SubSeq(events[3].instructions, 2, 1 + Len(req.question)) = req.question
    /\ events[3].instructions[2 + Len(req.question)]
         \notin {req.question[i] : i \in DOMAIN req.question}

\* The planner answered in prose and the researcher was delegated to.
C14_Witness ==
  /\ supervisorResponse.returned /\ PlainProse(supervisorResponse.content)
  /\ Len(events) >= 3 /\ events[3].type = "supervisor_delegate"
  /\ pc = "await_researcher"

\* A request for a tool the researcher does not have.
IsUnknownRequest(b) ==
  b.type = "tool_use" /\ b.name \notin {"search_wikipedia", "get_wikipedia_article"}

\* The result of such a request.
UnknownToolResult(b) ==
  [type |-> "tool_result", tool_use_id |-> b.id,
   content |-> <<"Herramienta desconocida.">>]

\* The requests of a content, in the order the model wrote them.
RequestsOf(content) == SelectSeq(content, LAMBDA b : b.type = "tool_use")

\* The requests of the tool_use response whose results are being collected.
RequestsInHand ==
  IF researcherResponse.stop_reason = "tool_use"
    THEN RequestsOf(researcherResponse.content) ELSE <<>>

\* C15: a request whose name is neither search_wikipedia nor
\* get_wikipedia_article gets the literal 'Herramienta desconocida.' as its
\* result under its own id, in the results in hand and in the follow-up turn;
\* its tool-call event is followed at once by its tool-result event with that
\* literal (so never by an error event); and no helper is called for it.
C15_UnknownToolFallsBack ==
  /\ \A k \in DOMAIN toolResults \cap DOMAIN RequestsInHand :
       IsUnknownRequest(RequestsInHand[k]) =>
         toolResults[k] = UnknownToolResult(RequestsInHand[k])
  /\ \A i \in DOMAIN researcherMessages :
       (researcherMessages[i].role = "assistant") =>
         LET blocks == toolUseBlocks(researcherMessages[i].content)
         IN \A k \in DOMAIN blocks :
              IsUnknownRequest(blocks[k]) =>
                /\ i < Len(researcherMessages)
                /\ k \in DOMAIN researcherMessages[i + 1].content
                /\ researcherMessages[i + 1].content[k] = UnknownToolResult(blocks[k])
  /\ \A i \in DOMAIN events :
       (/\ events[i].type = "researcher_tool_call"
        /\ events[i].tool \notin {"search_wikipedia", "get_wikipedia_article"}) =>
         /\ i < Len(events)
         /\ events[i + 1] = [type |-> "researcher_tool_result", tool |-> events[i].tool,
                             resultPreview |-> <<"Herramienta desconocida.">>]
  /\ \A i \in DOMAIN calls :
       calls[i].kind = "helper" =>
         calls[i].name \in {"search_wikipedia", "get_wikipedia_article"}

\* The researcher was called again with a history whose last turn holds the
\* fallback result of an unknown tool, and no error event was emitted.
C15_Witness ==
  /\ ~HasEvent("error")
  /\ \E i \in DOMAIN calls :
       /\ calls[i].kind = "model" /\ calls[i].role = "researcher"
       /\ Len(calls[i].messages) >= 3
       /\ LET last == calls[i].messages[Len(calls[i].messages)]
              asked == toolUseBlocks(calls[i].messages[Len(calls[i].messages) - 1].content)
          IN \E k \in DOMAIN asked :
               /\ IsUnknownRequest(asked[k])
               /\ last.content[k] = UnknownToolResult(asked[k])

\* The model identifier the request chose for a role.
ChosenModel(role) ==
  IF role = "supervisor" THEN req.supervisorModel
  ELSE IF role = "researcher" THEN req.researcherModel
  ELSE req.synthesizerModel

\* C16: every model call is made with the identifier the request chose for
\* the role of the call: the supervisor call with supervisorModel, every
\* researcher call with researcherModel, the synthesizer call with
\* synthesizerModel, and (the three being different) with no other role's.
C16_ModelOfRole ==
  \A i \in DOMAIN calls :
    calls[i].kind = "model" =>
      /\ calls[i].role \in {"supervisor", "researcher", "synthesizer"}
      /\ calls[i].model = ChosenModel(calls[i].role)
      /\ \A role \in {"supervisor", "researcher", "synthesizer"} \ {calls[i].role} :
           calls[i].model # ChosenModel(role)

\* A finished run that called the supervisor, the researcher more than once
\* and the synthesizer, with three different identifiers.
C16_Witness ==
  /\ pc = "done" /\ outcome = "completed"
  /\ Cardinality({req.supervisorModel, req.researcherModel, req.synthesizerModel}) = 3
  /\ \E i \in DOMAIN calls : calls[i].role = "supervisor"
  /\ Cardinality({i \in DOMAIN calls : calls[i].role = "researcher"}) >= 2
  /\ \E i \in DOMAIN calls : calls[i].role = "synthesizer"

\* C18: researcher_done is followed by supervisor_review, then the delegation
\* to the synthesizer, then synthesizer_start, and synthesizer_start is never
\* emitted without the three before it, in this order.
C18_ReviewBeforeSynthesis ==
  /\ \A i \in DOMAIN events :
       events[i].type = "researcher_done" =>
         /\ Len(events) >= i + 3
         /\ events[i + 1].type = "supervisor_review"
         /\ Kind(events[i + 2]) = "delegate_synthesizer"
         /\ events[i + 3].type = "synthesizer_start"
  /\ \A s \in DOMAIN events :
       events[s].type = "synthesizer_start" =>
         /\ s > 3
         /\ events[s - 3].type = "researcher_done"
         /\ events[s - 2].type = "supervisor_review"
         /\ Kind(events[s - 1]) = "delegate_synthesizer"

\* A run that reached the synthesizer call after a research with tools.
C18_Witness ==
  /\ pc = "await_synthesizer" /\ LastType = "synthesizer_start"
  /\ HasEvent("researcher_tool_result") /\ HasEvent("researcher_done")

\* The requests of the assistant turns of a conversation, in order.
RECURSIVE RequestsIn(_)
RequestsIn(msgs) ==
  IF msgs = <<>> THEN <<>>
  ELSE (IF Head(msgs).role = "assistant" THEN RequestsOf(Head(msgs).content) ELSE <<>>)
         \o RequestsIn(Tail(msgs))

\* The requests taken up so far: those of the turns pushed, and those of the
\* response in hand up to the one whose helper is awaited.
RequestsTaken ==
  RequestsIn(researcherMessages)
    \o (IF blockIdx > 0 THEN SubSeq(RequestsInHand, 1, blockIdx) ELSE <<>>)

HistoryStep ==
  researcherMessages' # researcherMessages =>
    \/ researcherMessages = <<>> /\ Len(researcherMessages') = 1
    \/ /\ researcherResponse'.stop_reason = "tool_use"
       /\ pc' = "await_researcher"
       /\ researcherMessages' =
            researcherMessages
              \o << [role |-> "assistant", content |-> researcherResponse'.content],
                    [role |-> "user", content |-> toolResults'] >>
       /\ Len(toolResults') = Len(RequestsOf(researcherResponse'.content))
       /\ \A k \in DOMAIN toolResults' :
            toolResults'[k].tool_use_id = RequestsOf(researcherResponse'.content)[k].id

\* C20: a tool_use response adds exactly two turns to the conversation, once
\* all its requests have their result: the assistant turn with the content of
\* the response as it came, then one user turn with all the results in the
\* order of the requests; while a helper is awaited the turns of the response
\* in hand are not there; a terminal response adds nothing.
C20_TwoTurnsPerResponse ==
  /\ [](/\ pc = "await_researcher" => Len(researcherMessages) = 1 + 2 * iter
        /\ pc \in {"await_tool", "await_synthesizer"} =>
             Len(researcherMessages) = 1 + 2 * (iter - 1))
  /\ [][HistoryStep]_vars

\* A response with two requests was pushed as two turns, and the terminal
\* response that came next left the conversation as it was.
C20_Witness ==
  /\ pc = "await_synthesizer" /\ iter = 2
  /\ Len(researcherMessages) = 3
  /\ Len(researcherMessages[3].content) = 2

\* Two runs were given the same: call by call, what settled is of the same
\* kind and the same value.
SameReceived(a, b) ==
  /\ Len(a) = Len(b)
  /\ \A i \in DOMAIN a : a[i].kind = b[i].kind /\ a[i].value = b[i].value

\* A step leaves the suspended invocation as it is, or is the switch, which
\* leaves both as they are.
OtherUntouched ==
  (other # NoOther) => (other' = other \/ (Locals' = other /\ other' = Locals))

Emitted == SubSeq(events', Len(events) + 1, Len(events'))

ResearcherAnswers ==
  /\ Len(received') = Len(received) + 1
  /\ received'[Len(received')].kind = "researcher"

IsBlank(text) == \A i \in DOMAIN text : text[i] = " "

\* The step emits one researcher_thinking event for each of the text
\* segments, in their order, before anything else, and no other.
ThinkingFirst(segments) ==
  /\ Len(Emitted) >= Len(segments)
  /\ \A i \in DOMAIN Emitted :
       IF i <= Len(segments)
         THEN Emitted[i] = [type |-> "researcher_thinking", text |-> segments[i].text]
         ELSE Emitted[i].type # "researcher_thinking"

\* C21 (as stated): when a response of the researcher arrives, every text
\* segment of it produces one researcher_thinking event with its text, and
\* these come before the tool-call events of the response and before
\* researcher_done.
C21_EveryTextThought ==
  [][ResearcherAnswers =>
       ThinkingFirst(SelectSeq(researcherResponse'.content,
                               LAMBDA b : b.type = "text"))]_vars

\* C21 (amended): when a response of the researcher arrives, every text
\* segment of it that is not blank produces one researcher_thinking event
\* with its text, a blank one produces none, and these events come before the
\* tool-call events of the response and before researcher_done; no other step
\* emits a researcher_thinking event.
C21_TextThoughtFirst ==
  [][IF ResearcherAnswers
       THEN ThinkingFirst(SelectSeq(researcherResponse'.content,
                                    LAMBDA b : b.type = "text" /\ ~IsBlank(b.text)))
       ELSE \A i \in DOMAIN Emitted : Emitted[i].type # "researcher_thinking"]_vars

\* A terminal response with a blank and a written text segment arrived after
\* a response whose text segment came before its requests.
C21_Witness ==
  /\ pc = "await_synthesizer"
  /\ \E i, j \in DOMAIN researcherResponse.content :
       /\ researcherResponse.content[i].type = "text"
       /\ IsBlank(researcherResponse.content[i].text)
       /\ researcherResponse.content[j].type = "text"
       /\ ~IsBlank(researcherResponse.content[j].text)
  /\ \E i \in DOMAIN events :
       /\ i < Len(events)
       /\ events[i].type = "researcher_thinking"
       /\ events[i + 1].type = "researcher_tool_call"
  /\ events[Len(events) - 4].type = "researcher_thinking"

\* The text of the first text segment of a content, wherever it stands, or
\* the empty string.
FirstTextOf(content) ==
  LET at == {i \in DOMAIN content : content[i].type = "text"}
  IN IF at = {} THEN <<>>
     ELSE content[CHOOSE i \in at : \A j \in at : i <= j].text

\* s ends with t.
EndsWith(s, t) ==
  Len(s) >= Len(t) /\ SubSeq(s, Len(s) - Len(t) + 1, Len(s)) = t

\* The terminal response of the researcher has arrived.
ResearchEnded ==
  researcherResponse.returned /\ researcherResponse.stop_reason # "tool_use"

\* C22: once the terminal response of the researcher has arrived, the findings
\* are the text of its first text segment, wherever it stands, or the empty
\* string when it has none; the synthesizer is called with them after the
\* heading of the research data; and the run has gone on to synthesizer_start
\* with no error event before it, whether the findings are empty or not.
C22_FindingsAreFirstText ==
  ResearchEnded =>
    /\ researchSummary = FirstTextOf(researcherResponse.content)
    /\ calls # <<>>
    /\ LET call == calls[Len(calls)]
       IN /\ call.kind = "model" /\ call.role = "synthesizer"
          /\ EndsWith(call.messages[1].content,
                      <<"\n\nDatos de investigacion:\n">>
                        \o FirstTextOf(researcherResponse.content))
    /\ \E s \in DOMAIN events :
         /\ events[s].type = "synthesizer_start"
         /\ \A i \in 1..s : events[i].type # "error"

\* A run whose terminal response had no text segment: the findings are
\* empty and the run reached supervisor_done.
C22_Witness ==
  /\ ResearchEnded /\ researcherResponse.content = <<>>
  /\ researchSummary = <<>>
  /\ pc = "done" /\ LastType = "supervisor_done" /\ ~HasEvent("error")

\* C23: once the synthesizer's response has arrived, synthesizer_done carries
\* the text of its first text segment, wherever it stands, or the empty string
\* when it has none (also when it has no segment at all), supervisor_done
\* follows, and there is no error event.
C23_AnswerIsFirstText ==
  synthesizerResponse.returned =>
    /\ Len(events) >= 2
    /\ events[Len(events) - 1]
         = [type |-> "synthesizer_done",
            answer |-> FirstTextOf(synthesizerResponse.content)]
    /\ LastType = "supervisor_done"
    /\ ~HasEvent("error")

\* The first top-level {...} of a text of objects that do not nest: from the
\* first opening brace to the first closing brace.
FirstObject(text) ==
  SubSeq(text, FirstIndex(text, "{"), FirstIndex(text, "}"))

\* The planner's text holds a plan object with both fields, and after it
\* other text with braces.
PlanThenBraces(content) ==
  /\ content # <<>>
  /\ content[1].type = "text"
  /\ FirstIndex(content[1].text, "{") > 0
  /\ FirstIndex(content[1].text, "}") > FirstIndex(content[1].text, "{")
  /\ LET parsed == JSONParse(FirstObject(content[1].text))
     IN /\ parsed.ok /\ parsed.kind = "object"
        /\ {"search_term", "response_format"} \subseteq DOMAIN parsed.fields
  /\ LastIndex(content[1].text, "}") > FirstIndex(content[1].text, "}")

\* C24: when the planner's text holds a plan object followed by other text
\* with braces, supervisor_plan carries the search_term and response_format of
\* that object, not the fallback plan.
C24_FirstObjectIsThePlan ==
  (supervisorResponse.returned /\ PlanThenBraces(supervisorResponse.content)) =>
    LET parsed == JSONParse(FirstObject(supervisorResponse.content[1].text))
    IN /\ Len(events) >= 2
       /\ events[2] = [type |-> "supervisor_plan",
                       searchTerm |-> parsed.fields["search_term"],
                       responseFormat |-> parsed.fields["response_format"]]

\* sub occurs in s.
Embeds(s, sub) ==
  \E i \in 0..(Len(s) - Len(sub)) : SubSeq(s, i + 1, i + Len(sub)) = sub

\* The delegations to the synthesizer emitted so far.
SynthesizerDelegations ==
  SelectSeq(events, LAMBDA e : Kind(e) = "delegate_synthesizer")

\* C25 (as stated): the instructions of the delegation to the synthesizer
\* embed the question, the response format of the plan and the findings.
C25_InstructionEmbedsFindings ==
  \A i \in DOMAIN SynthesizerDelegations :
    /\ Embeds(SynthesizerDelegations[i].instructions, req.question)
    /\ Embeds(SynthesizerDelegations[i].instructions, ToStr(plan.response_format))
    /\ Embeds(SynthesizerDelegations[i].instructions, researchSummary)

\* C25 (amended): the instructions of the delegation to the synthesizer embed
\* the question and the response format of the plan; the findings are not
\* part of them but follow them, after the heading of the research data, in
\* the one turn the synthesizer is called with.
C25_FindingsFollowInstruction ==
  \A i \in DOMAIN SynthesizerDelegations :
    LET instructions == SynthesizerDelegations[i].instructions
    IN /\ Embeds(instructions, req.question)
       /\ Embeds(instructions, ToStr(plan.response_format))
       /\ ~Embeds(instructions, <<"\n\nDatos de investigacion:\n">>)
       /\ \E k \in DOMAIN calls :
            /\ calls[k].role = "synthesizer"
            /\ calls[k].messages[1].content
                 = instructions \o <<"\n\nDatos de investigacion:\n">> \o researchSummary

\* The synthesizer was delegated to with findings that are not empty and a
\* format the planner chose.
C25_Witness ==
  /\ pc = "await_synthesizer"
  /\ Len(SynthesizerDelegations) = 1
  /\ researchSummary # <<>>
  /\ plan.response_format = <<"short summary">>
  /\ ~Embeds(SynthesizerDelegations[1].instructions, researchSummary)

\* C26: the supervisor and the synthesizer are called without tools and with
\* one user turn: the question for the supervisor; for the synthesizer a
\* string made of the question, the response format of the plan and the
\* findings, in which no tool result of the researcher's conversation occurs;
\* the researcher's calls, and only they, carry the tools.
C26_OnlyResearcherHasTools ==
  \A k \in DOMAIN calls :
    calls[k].kind = "model" =>
      IF calls[k].role = "researcher" THEN calls[k].tools
      ELSE /\ ~calls[k].tools
           /\ Len(calls[k].messages) = 1
           /\ calls[k].messages[1].role = "user"
           /\ IF calls[k].role = "supervisor"
                THEN calls[k].messages[1].content = req.question
                ELSE /\ calls[k].messages[1].content
                          = <<"La pregunta del usuario es: \"">> \o req.question
                              \o <<"\". El formato de respuesta deseado es: ">>
                              \o ToStr(plan.response_format)
                              \o <<". Te envio los datos de investigacion para que los estructures en una respuesta clara.",
                                   "\n\nDatos de investigacion:\n">>
                              \o researchSummary
                     /\ \A r \in CollectedResults :
                          ~Embeds(calls[k].messages[1].content, r.content)

\* The synthesizer was called after a research whose conversation holds tool
\* results.
C26_Witness ==
  /\ calls # <<>> /\ calls[Len(calls)].role = "synthesizer"
  /\ CollectedResults # {}
  /\ Len(researcherMessages) >= 3
  /\ \E k \in DOMAIN calls : calls[k].role = "researcher" /\ Len(calls[k].messages) >= 3

\* The order of the calls as an automaton: the position after a call.
CallStep(st, c) ==
  IF c.kind = "model" /\ c.role = "supervisor"
    THEN (IF st = "begin" THEN "planning" ELSE "reject")
  ELSE IF c.kind = "model" /\ c.role = "researcher"
    THEN (IF st \in {"planning", "research", "tools"} THEN "research" ELSE "reject")
  ELSE IF c.kind = "helper"
    THEN (IF st \in {"research", "tools"} THEN "tools" ELSE "reject")
  ELSE IF c.kind = "model" /\ c.role = "synthesizer"
    THEN (IF st = "research" THEN "synthesis" ELSE "reject")
  ELSE "reject"

RECURSIVE CallOrderAfter(_, _)
CallOrderAfter(st, cs) ==
  IF cs = <<>> THEN st ELSE CallOrderAfter(CallStep(st, Head(cs)), Tail(cs))

\* The requests of a content that a helper serves.
HelperRequestsOf(content) ==
  SelectSeq(content, LAMBDA b : /\ b.type = "tool_use"
                                /\ b.name \in {"search_wikipedia",
                                               "get_wikipedia_article"})

\* The helper calls started since the last researcher call.
HelperCallsSince(cs) ==
  LET last == CHOOSE k \in DOMAIN cs :
                /\ cs[k].role = "researcher"
                /\ \A j \in (k + 1)..Len(cs) : cs[j].role # "researcher"
  IN SubSeq(cs, last + 1, Len(cs))

\* C27: at most one call is in flight; the calls are the supervisor's, then
\* researcher calls, each followed by the helper calls of its response in the
\* order of the requests before the next one, then the synthesizer's, each of
\* the two once; the researcher is called only once the plan is there, a
\* helper only for a request of the response in hand, the synthesizer only
\* once the terminal response has arrived.
C27_OneCallAtATime ==
  /\ Len(calls) - Len(received) \in {0, 1}
  /\ Len(calls) - Len(received) = 1 <=>
       pc \in {"await_supervisor", "await_researcher", "await_tool",
               "await_synthesizer"}
  /\ CallOrderAfter("begin", calls) # "reject"
  /\ \A k \in DOMAIN calls :
       /\ (calls[k].role = "researcher" /\ Len(calls[k].messages) >= 3) =>
            LET turn == calls[k].messages[Len(calls[k].messages) - 1]
                since == HelperCallsSince(SubSeq(calls, 1, k - 1))
            IN [i \in DOMAIN since |-> <<since[i].name, since[i].input>>]
                 = [i \in DOMAIN HelperRequestsOf(turn.content) |->
                      <<HelperRequestsOf(turn.content)[i].name,
                        HelperRequestsOf(turn.content)[i].input>>]
       /\ calls[k].role = "researcher" => supervisorResponse.returned
       /\ calls[k].role = "synthesizer" => ResearchEnded
  /\ (pc = "done" /\ outcome = "completed") =>
       /\ Cardinality({k \in DOMAIN calls : calls[k].role = "supervisor"}) = 1
       /\ Cardinality({k \in DOMAIN calls : calls[k].role = "synthesizer"}) = 1
       /\ Cardinality({k \in DOMAIN calls : calls[k].role = "researcher"}) >= 1

\* A finished run with two helper calls between two researcher calls.
C27_Witness ==
  /\ pc = "done" /\ outcome = "completed"
  /\ \E k \in DOMAIN calls :
       /\ k + 3 <= Len(calls)
       /\ calls[k].role = "researcher"
       /\ calls[k + 1].kind = "helper" /\ calls[k + 1].name = "search_wikipedia"
       /\ calls[k + 2].kind = "helper" /\ calls[k + 2].name = "get_wikipedia_article"
       /\ calls[k + 3].role = "researcher"

\* The step in which a helper returns a value.
HelperReturns(kind) ==
  /\ Len(received') = Len(received) + 1
  /\ received'[Len(received')].kind = kind
  /\ ~received'[Len(received')].value.throws

\* What the helper returned in that step.
HelperValue == received'[Len(received')].value.value

\* C28: when a helper returns, the result collected for the model is the
\* whole output, whatever its length: the article's text as it came, the
\* list of all the pages found; the event of an article shows the first 120
\* characters and an ellipsis when the text is longer than 120 characters and
\* the whole text otherwise; and the turn pushed for the model holds the
\* results collected, not what the events show.
C28_PreviewCapOnly ==
  /\ [][HelperReturns("article") =>
          /\ Len(toolResults') > Len(toolResults)
          /\ toolResults'[Len(toolResults) + 1].content = HelperValue
          /\ Emitted # <<>>
          /\ Emitted[1].type = "researcher_tool_result"
          /\ Emitted[1].resultPreview =
               (IF Length(HelperValue) > 120
                  THEN Slice(HelperValue, 120) \o <<"...">>
                  ELSE HelperValue)]_vars
  /\ [][HelperReturns("search") =>
          /\ Len(toolResults') > Len(toolResults)
          /\ toolResults'[Len(toolResults) + 1].content = SearchResult(HelperValue)
          /\ \A i \in DOMAIN HelperValue :
               Embeds(toolResults'[Len(toolResults) + 1].content,
                      HelperValue[i].title \o <<": ">> \o HelperValue[i].snippet)]_vars
  /\ [](\A k \in DOMAIN calls :
          (calls[k].role = "researcher" /\ Len(calls[k].messages) >= 3) =>
            \A i \in DOMAIN calls[k].messages[Len(calls[k].messages)].content :
              calls[k].messages[Len(calls[k].messages)].content[i] \in CollectedResults)

\* The researcher was called with the whole of an article of 121 characters,
\* whose event showed 120 of them and an ellipsis.
C28_Witness ==
  /\ \E k \in DOMAIN calls :
       /\ calls[k].role = "researcher" /\ Len(calls[k].messages) >= 3
       /\ \E i \in DOMAIN calls[k].messages[Len(calls[k].messages)].content :
            calls[k].messages[Len(calls[k].messages)].content[i].content = LongExtract
  /\ \E j \in DOMAIN events :
       /\ events[j].type = "researcher_tool_result"
       /\ events[j].resultPreview = <<LongExtract[1], "...">>

\* s is the text t between one token before and one token after.
Quotes(s, t) == Len(s) = Len(t) + 2 /\ SubSeq(s, 2, Len(t) + 1) = t

\* C29: the plan does not change once resolved: the searchTerm of
\* supervisor_plan is the value the instruction of the delegation to the
\* researcher quotes and the topic of the seed turn, which stays the first
\* turn of every researcher call; the responseFormat of supervisor_plan is the
\* value the instruction of the delegation to the synthesizer names; and the
\* plan holds both values to the end of the run, however many times the
\* researcher asked for tools.
C29_PlanIsFixed ==
  (Len(events) >= 2 /\ events[2].type = "supervisor_plan") =>
    LET term == ToStr(events[2].searchTerm)
        format == ToStr(events[2].responseFormat)
        seed == events[3].instructions
                  \o <<"\n\nTema de investigacion: \"">> \o term \o <<"\"">>
    IN /\ plan.search_term = events[2].searchTerm
       /\ plan.response_format = events[2].responseFormat
       /\ Len(events) >= 3
       /\ Kind(events[3]) = "delegate_researcher"
       /\ Quotes(events[3].instructions, term)
       /\ researcherMessages # <<>>
       /\ researcherMessages[1] = [role |-> "user", content |-> seed]
       /\ \A k \in DOMAIN calls :
            calls[k].role = "researcher" =>
              calls[k].messages[1] = [role |-> "user", content |-> seed]
       /\ \A i \in DOMAIN SynthesizerDelegations :
            LET instructions == SynthesizerDelegations[i].instructions
            IN /\ Len(instructions) = Len(req.question) + Len(format) + 3
               /\ SubSeq(instructions, Len(req.question) + 3,
                         Len(req.question) + 2 + Len(format)) = format

\* The synthesizer was delegated to after MaxIter requests for tools, with a
\* plan of the planner whose term is not the question.
C29_Witness ==
  /\ pc = "await_synthesizer" /\ iter = MaxIter + 1
  /\ Len(SynthesizerDelegations) = 1
  /\ events[2].type = "supervisor_plan"
  /\ events[2].searchTerm = <<"X">>
  /\ events[2].responseFormat = <<"short summary">>

\* What a call settled with is a throw: a rejected model call, or a helper
\* that threw.
IsThrow(s) == s.kind = "error" \/ (s.kind \in {"search", "article"} /\ s.value.throws)

\* A call of this run has thrown.
Threw == \E i \in DOMAIN received : IsThrow(received[i])

\* This step is the one in which an awaited call throws.
ThrowsNow ==
  /\ Len(received') = Len(received) + 1
  /\ IsThrow(received'[Len(received')])

\* C30: no retry.  The step in which a model call or a helper throws starts no
\* call, emits nothing but the error event and ends the run; from then on no
\* call is started, no call settles and nothing more is emitted, so no phase
\* is entered again; and a throw is the last thing any call of the run
\* settled with, every call started having settled.
C30_NoRetry ==
  /\ [][ThrowsNow =>
          /\ calls' = calls
          /\ pc' = "done"
          /\ \A i \in DOMAIN Emitted : Emitted[i].type = "error"]_vars
  /\ [][Threw =>
          /\ calls' = calls
          /\ received' = received
          /\ events' = events
          /\ pc' = "done"]_vars
  /\ [](\A i \in DOMAIN received :
          IsThrow(received[i]) =>
            /\ i = Len(received)
            /\ Len(calls) = Len(received)
            /\ pc = "done"
            /\ \A j \in 1..(i - 1) : ~IsThrow(received[j]))

\* A helper threw in the last round of tools, after the planner, the
\* researcher and at least one helper had answered, and the run ended with the
\* error event.
C30_Witness ==
  /\ Len(received) >= 4
  /\ received[Len(received)].kind \in {"search", "article"}
  /\ received[Len(received)].value.throws
  /\ iter = MaxIter
  /\ pc = "done"
  /\ LastType = "error"


----------------------------------------------------------------------------
\* C31

\* What the researcher answered so far.
ResearcherAnswered ==
  SelectSeq(received, LAMBDA s : s.kind = "researcher")

\* Research has begun, every answer of the researcher so far has stop_reason
\* tool_use, and no call has thrown.
PerpetualSoFar ==
  /\ HasEvent("researcher_start")
  /\ ~Threw
  /\ \A i \in DOMAIN ResearcherAnswered :
       ResearcherAnswered[i].value.stop_reason = "tool_use"

\* C31: the loop has no cap of its own.  As long as the researcher has
\* answered every call with stop_reason tool_use and every helper has
\* returned, the run is still inside the loop after any number of rounds:
\* researcher_done has not been emitted, no review or synthesizer event
\* either, the synthesizer has not been called, and the stream is open; and
\* after any number of rounds below the bound of the model the loop takes one
\* more tool_use answer and one more helper result and stays inside.
C31_NoIterationCap ==
  PerpetualSoFar =>
    /\ pc \in {"await_researcher", "await_tool"}
    /\ iter = Len(ResearcherAnswered)
    /\ ~HasEvent("researcher_done")
    /\ ~HasEvent("supervisor_review")
    /\ ~HasEvent("synthesizer_start")
    /\ \A k \in DOMAIN calls : ~(calls[k].kind = "model" /\ calls[k].role = "synthesizer")
    /\ streamState = "readable"
    /\ outcome = "running"
    /\ (pc = "await_researcher" /\ iter < MaxIter) =>
         ENABLED (ResearcherRequestsTools /\ pc' \in {"await_researcher", "await_tool"})
    /\ pc = "await_tool" =>
         ENABLED ((SearchReturns \/ ArticleReturns)
                    /\ pc' \in {"await_researcher", "await_tool"})

\* The researcher is called again after MaxIter rounds of tools, the stream
\* open and the research not done.
C31_Witness ==
  /\ PerpetualSoFar
  /\ iter = MaxIter
  /\ pc = "await_researcher"
  /\ streamState = "readable"
  /\ Len(researcherMessages) = 1 + 2 * MaxIter


----------------------------------------------------------------------------
\* C32

\* The start event of the phase of a role.
StartEventOf(role) ==
  IF role = "supervisor" THEN "supervisor_start"
  ELSE IF role = "researcher" THEN "researcher_start"
  ELSE "synthesizer_start"

\* This step starts the first model call of role.
StartsFirstCall(role) ==
  /\ Len(calls') = Len(calls) + 1
  /\ calls'[Len(calls')].kind = "model"
  /\ calls'[Len(calls')].role = role
  /\ \A k \in DOMAIN calls : ~(calls[k].kind = "model" /\ calls[k].role = role)

\* C32: the start event of a phase is emitted before the first model call of
\* the phase is started: in the step that starts the first call of a role the
\* start event of that role is emitted, once, and it is the last event before
\* the call; no role has a call without its start event; and a run whose
\* planner call throws has emitted supervisor_start and then error, nothing
\* else.
C32_StartBeforeFirstCall ==
  /\ [][\A role \in {"supervisor", "researcher", "synthesizer"} :
          StartsFirstCall(role) =>
            /\ ~HasEvent(StartEventOf(role))
            /\ Emitted # <<>>
            /\ Emitted[Len(Emitted)].type = StartEventOf(role)
            /\ Cardinality({i \in DOMAIN Emitted :
                              Emitted[i].type = StartEventOf(role)}) = 1]_vars
  /\ [](\A k \in DOMAIN calls :
          calls[k].kind = "model" => CountEvents(StartEventOf(calls[k].role)) = 1)
  /\ []((Len(received) = 1 /\ received[1].kind = "error") =>
          /\ Len(events) = 2
          /\ events[1].type = "supervisor_start"
          /\ events[2].type = "error"
          /\ events[2].message = ErrorMessage(received[1].value))

\* The planner call threw, and the run is over.
C32_Witness ==
  /\ Len(received) = 1 /\ received[1].kind = "error"
  /\ Len(calls) = 1 /\ calls[1].role = "supervisor"
  /\ pc = "done"
  /\ Len(events) = 2


----------------------------------------------------------------------------
\* C33

\* C33 (as stated): at every researcher call every turn of the conversation
\* carries at least one content segment, the user turn pushed after a
\* tool_use response without a tool_use block included.
C33_EveryTurnHasContent ==
  \A k \in DOMAIN calls :
    (calls[k].kind = "model" /\ calls[k].role = "researcher") =>
      \A i \in DOMAIN calls[k].messages : calls[k].messages[i].content # <<>>


----------------------------------------------------------------------------
\* C34

\* The tool_use responses among the first n things the calls settled with.
ToolUseAnswers(n) ==
  SelectSeq(SubSeq(received, 1, n),
            LAMBDA s : s.kind = "researcher" /\ s.value.stop_reason = "tool_use")

\* The ids of the requests of a content, in order.
RequestIds(content) ==
  LET blocks == SelectSeq(content, LAMBDA b : b.type = "tool_use")
  IN [i \in 1..Len(blocks) |-> blocks[i].id]

\* C34: at every researcher call (the k-th call of the run, made when k - 1
\* calls have settled) the conversation starts with the user seed turn, its
\* turns are user and assistant in alternation, it ends with a user turn, its
\* length is 1 + 2n for the n tool_use responses received so far, and its
\* 2i-th turn is the i-th of these responses, followed at once by the user
\* turn with the results of that response's requests, one for each request in
\* the order of the requests.
C34_HistoryShape ==
  \A k \in DOMAIN calls :
    (calls[k].kind = "model" /\ calls[k].role = "researcher") =>
      LET m == calls[k].messages
          answers == ToolUseAnswers(k - 1)
      IN /\ Len(received) >= k - 1
         /\ Len(m) = 1 + 2 * Len(answers)
         /\ m[1].role = "user"
         /\ m[1].content = events[3].instructions
                             \o <<"\n\nTema de investigacion: \"">>
                             \o ToStr(events[2].searchTerm) \o <<"\"">>
         /\ m[Len(m)].role = "user"
         /\ \A i \in 1..(Len(m) - 1) : m[i].role # m[i + 1].role
         /\ \A i \in DOMAIN answers :
              /\ m[2 * i].role = "assistant"
              /\ m[2 * i].content = answers[i].value.content
              /\ m[2 * i + 1].role = "user"
              /\ [j \in DOMAIN m[2 * i + 1].content |->
                    m[2 * i + 1].content[j].tool_use_id]
                   = RequestIds(answers[i].value.content)
              /\ \A j \in DOMAIN m[2 * i + 1].content :
                   m[2 * i + 1].content[j].type = "tool_result"

\* A researcher call made after MaxIter tool_use responses, the first with
\* requests and the last without.
C34_Witness ==
  \E k \in DOMAIN calls :
    /\ calls[k].kind = "model" /\ calls[k].role = "researcher"
    /\ Len(calls[k].messages) = 1 + 2 * MaxIter
    /\ Len(calls[k].messages[3].content) = 2
    /\ calls[k].messages[2 * MaxIter + 1].content = <<>>


----------------------------------------------------------------------------
\* C35, C36, C37: the page

\* The invocations of handleSubmit whose stream is being read.
Reading == {i \in DOMAIN submissions : submissions[i].at = "read"}

\* The logs, the statuses and the answer are as reset() leaves them.
AsReset ==
  /\ supervisorLog = <<>> /\ researcherLog = <<>> /\ synthesizerLog = <<>>
  /\ supervisorStatus = "esperando"
  /\ researcherStatus = "esperando"
  /\ synthesizerStatus = "esperando"
  /\ finalAnswer = <<>>

\* C35 (as stated): at most one stream is read at a time, and the events of a
\* run touch the state of that run only: while the stream of an invocation is
\* being read handleSubmit admits no other, at most one stream is being read,
\* and when every invocation so far has been followed by Reset the logs, the
\* statuses and the answer are as Reset left them and error holds no message
\* of an error event.
C35_RunsAreIsolated ==
  /\ Reading # {} => ~CanSubmit
  /\ Cardinality(Reading) <= 1
  /\ (submissions # <<>> /\ \A i \in DOMAIN submissions : submissions[i].superseded) =>
       /\ AsReset
       /\ error # <<"APIError">>

\* The last invocation of handleSubmit, and whether it has ended with nothing
\* else having touched the page since it was submitted.
LastSubmission == submissions[Len(submissions)]

RunEnded ==
  /\ submissions # <<>>
  /\ LastSubmission.at = "returned"
  /\ LastSubmission.alone
  /\ ~LastSubmission.superseded
  /\ ~running

\* C36 (as stated): when a submitted run has ended, running false again, no
\* agent is still 'activo', however the run ended.
C36_NoneActiveAfterRun ==
  RunEnded =>
    /\ supervisorStatus # "activo"
    /\ researcherStatus # "activo"
    /\ synthesizerStatus # "activo"

\* The invocation that is sent the events of a run that completes, one chunk
\* for every event, with nothing else touching the page.
SuccessfulRun ==
  /\ submissions # <<>>
  /\ LastSubmission.at \in {"read", "returned"}
  /\ LastSubmission.chunks = Frames(SuccessfulEvents)
  /\ LastSubmission.alone
  /\ ~LastSubmission.superseded

\* The kinds of the events it has taken so far.
Taken == SubSeq(SuccessfulEvents, 1, LastSubmission.next - 1)
HasTaken(kind) == \E i \in DOMAIN Taken : Kind(Taken[i]) = kind

\* The place of the first event of a kind among the events of the run.
PlaceOf(kind) ==
  CHOOSE i \in DOMAIN SuccessfulEvents :
    /\ Kind(SuccessfulEvents[i]) = kind
    /\ \A j \in 1..(i - 1) : Kind(SuccessfulEvents[j]) # kind

\* C37: while the page is sent the events of a run that completes, in the
\* order of emission (which is the order of the route's events), the
\* supervisor is activo until the delegation to the researcher, listo until
\* researcher_done, activo until supervisor_done and listo from then on; the
\* researcher is esperando until that delegation, activo until
\* researcher_done and listo from then on; the synthesizer is esperando until
\* its delegation, activo until synthesizer_done and listo from then on; and
\* when the stream has ended the three are listo, done is true, running is
\* false, error is empty and finalAnswer is the answer of synthesizer_done.
C37_StatusesOfASuccessfulRun ==
  /\ OrderAfter(TRUE, "begin", SuccessfulEvents) = "end"
  /\ PlaceOf("delegate_researcher") < PlaceOf("researcher_done")
  /\ PlaceOf("researcher_done") < PlaceOf("delegate_synthesizer")
  /\ PlaceOf("delegate_synthesizer") < PlaceOf("synthesizer_done")
  /\ PlaceOf("synthesizer_done") < PlaceOf("supervisor_done")
  /\ SuccessfulRun =>
       /\ supervisorStatus =
            (IF HasTaken("supervisor_done") THEN "listo"
             ELSE IF HasTaken("researcher_done") THEN "activo"
             ELSE IF HasTaken("delegate_researcher") THEN "listo"
             ELSE "activo")
       /\ researcherStatus =
            (IF HasTaken("researcher_done") THEN "listo"
             ELSE IF HasTaken("delegate_researcher") THEN "activo"
             ELSE "esperando")
       /\ synthesizerStatus =
            (IF HasTaken("synthesizer_done") THEN "listo"
             ELSE IF HasTaken("delegate_synthesizer") THEN "activo"
             ELSE "esperando")
       /\ error = <<>>
       /\ running = (LastSubmission.at = "read")
       /\ done = (LastSubmission.at = "returned")
       /\ LastSubmission.at = "returned" =>
            /\ supervisorStatus = "listo"
            /\ researcherStatus = "listo"
            /\ synthesizerStatus = "listo"
            /\ finalAnswer = SuccessfulEvents[PlaceOf("synthesizer_done")].answer
            /\ finalAnswer # <<>>

\* The stream of a run that completes has ended, every event taken.
C37_Witness ==
  /\ SuccessfulRun
  /\ LastSubmission.at = "returned"
  /\ LastSubmission.next = Len(SuccessfulEvents) + 1
  /\ done /\ ~running
  /\ supervisorStatus = "listo"
  /\ Len(supervisorLog) >= 5

====
